---- MODULE Spec2Model ----
(***************************************************************************)
(* lastfmrobot: the argument mini-parser (utils.rs), the collage button    *)
(* round trip (main.rs), the Lastfm-style adapters and the cached          *)
(* transport client (api_requester.rs).                                    *)
(*                                                                         *)
(* Strings are sequences of one-character strings, so that splitting,      *)
(* truncation, prefix and substring tests and number parsing are computed  *)
(* as the code computes them.                                              *)
(***************************************************************************)
EXTENDS Integers, Sequences, FiniteSets

VARIABLES
    \* collage_command and its buttons
    arg,        \* the argument string handed to collage_command
    cpc,        \* collage_command's position: "start" | "parsed" | "rendered" | "failed"
    res,        \* the tuple parse_collage_arg returned
    buttons,    \* the callback data of the inline buttons last rendered
    \* one top-list or profile fetch (fetch_albums, fetch_artists, fetch_user_info)
    op,         \* which fetch: "albums" | "artists" | "user_info"
    api_type,   \* its api_type parameter
    duration,   \* its duration parameter
    limit,      \* its limit parameter (an Option)
    apc,        \* its position: "start" | "sent" | "done"
    request,    \* the request it built
    json,       \* what the transport client returned for it
    result,     \* what the fetch returned
    \* calls through CLIENT (fetch_recent_tracks, fetch_lastfm_track/album/artist)
    call,           \* which function: "recent" | "track" | "album" | "artist",
                    \* or "art": one album art request of fetch_album_arts
    provider,       \* the api_type it works against
    prefer_cached,  \* fetch_recent_tracks' prefer_cached parameter
    actual_limit,   \* fetch_recent_tracks' actual_limit parameter
    npc,            \* the call's position: "idle" | "await" | "got" | "done"
    sent,           \* the requests this call handed to CLIENT, as the cache layer saw them
    status,         \* the status the provider gave the last of them (0: none)
    response,       \* what send().await gave the call for the last of them
    all_tracks,     \* fetch_recent_tracks' all_tracks
    ret,            \* what the call returned
    cache,          \* CLIENT's cache: url -> stored response and its age, if any
    answered,       \* url -> seconds since the provider answered 200 to a prefer_cached
                    \* call for it (-1: not within the cache's time to live)
    \* fetch_user_info for Listenbrainz
    upc,            \* its position: "issue" | "wait" | "done"
    issued,         \* the URLs it has handed to CLIENT, in order
    answers,        \* what send().await and json().await gave for them, in order
    user,           \* what it returned
    \* fetch_lastfm_infos and its two tasks
    ipc,            \* its position: "start" | "spawned_artist" | "spawned_both" |
                    \* "joined_artist" | "done"
    tasks,          \* task -> "unborn" | "spawned" | "in_flight" | "finished"
    outcomes,       \* task -> what the finished task's lookup gave
    artist_part,    \* fetch_lastfm_infos' artist (the artist part of the text)
    info_text,      \* what fetch_lastfm_infos returned
    \* the analytics buffer (anal.rs) and the add_event calls of two handlers
    events_buffer,  \* EVENTS_BUFFER: the events pushed and not cleared, by number
    pushed,         \* how many events were ever pushed (the last one's number)
    epc,            \* handler -> its add_event's position: "idle" | "pushed" | "send" |
                    \* "uploading" | "uploaded" | "done"
    upload_body,    \* handler -> the events of the UploadBody its send() built
    upload_status,  \* handler -> the status its last upload was answered with (0: none)
    uploaded,       \* the events of the batches the analytics server accepted
    add_result,     \* handler -> what its last add_event returned
    \* one update at a time through callback_handler or the /set command
    update,         \* the update: a button click (its data, who clicked, what message
                    \* it hangs on) or a /set message (its argument, who sent it)
    bpc,            \* the handler's position: "idle" | "received" | "admitted" | "set" |
                    \* "probed" | "done"
    user_store,     \* DB: chat user id -> the account linked to it, if any
    effects,        \* what the handler has done for this update, in order
    set_probe,      \* set_command's fetch_recent_tracks call and what it gave
    \* callback_handler's "info" branch on a message of a Lastfm user
    msg_text,       \* the text of the message the button hangs on, a sequence of
                    \* characters
    ita,            \* its first italic entity: offset and length in UTF-16 units
    bol,            \* its first bold entity
    spc,            \* the branch's position: "start" | "artist" | "title" | "done"
    artist_slice,   \* what slice_tg_string gave for the italic entity
    title_slice,    \* what slice_tg_string gave for the bold entity
    info_answer     \* the text the callback query was answered with

parseVars == <<arg, cpc, res, buttons>>

adapterVars == <<op, api_type, duration, limit, apc, request, json, result>>

netVars ==
    <<call, provider, prefer_cached, actual_limit, npc, sent, status, response,
      all_tracks, ret, cache, answered>>

profileVars == <<upc, issued, answers, user>>

infosVars == <<ipc, tasks, outcomes, artist_part, info_text>>

analVars ==
    <<events_buffer, pushed, epc, upload_body, upload_status, uploaded, add_result>>

botVars == <<update, bpc, user_store, effects, set_probe>>

sliceVars == <<msg_text, ita, bol, spc, artist_slice, title_slice, info_answer>>

vars ==
    <<arg, cpc, res, buttons, op, api_type, duration, limit, apc, request, json, result,
      call, provider, prefer_cached, actual_limit, npc, sent, status, response,
      all_tracks, ret, cache, answered, upc, issued, answers, user,
      ipc, tasks, outcomes, artist_part, info_text,
      events_buffer, pushed, epc, upload_body, upload_status, uploaded, add_result,
      update, bpc, user_store, effects, set_probe,
      msg_text, ita, bol, spc, artist_slice, title_slice, info_answer>>

(***************************************************************************)
(* Bounds of the model.                                                    *)
(***************************************************************************)
MaxTokens == 3      \* typed phrases hold at most this many tokens

MaxEntries == 1     \* a provider's list holds at most this many entries

MaxChars == 3       \* a message text holds at most this many characters

\* the variables of a part the specification at hand leaves alone
AdapterIdle ==
    /\ op = "none" /\ api_type = "none" /\ duration = "none" /\ limit = [some |-> FALSE]
    /\ apc = "off" /\ request = "none" /\ json = "none" /\ result = "none"

ProfileIdle == upc = "off" /\ issued = <<>> /\ answers = <<>> /\ user = "none"

InfosIdle ==
    ipc = "off" /\ tasks = <<>> /\ outcomes = <<>> /\ artist_part = "none" /\ info_text = "none"

AnalIdle ==
    /\ events_buffer = <<>> /\ pushed = 0 /\ epc = <<>> /\ upload_body = <<>>
    /\ upload_status = <<>> /\ uploaded = {} /\ add_result = <<>>

BotIdle ==
    /\ update = <<>> /\ bpc = "off" /\ user_store = <<>> /\ effects = <<>>
    /\ set_probe = <<>>

SliceIdle ==
    /\ msg_text = <<>> /\ ita = <<>> /\ bol = <<>> /\ spc = "off"
    /\ artist_slice = "none" /\ title_slice = "none" /\ info_answer = "none"

NetIdle ==
    /\ call = "none" /\ provider = "none" /\ prefer_cached = FALSE /\ actual_limit = 0
    /\ npc = "off" /\ sent = <<>> /\ status = 0 /\ response = "none"
    /\ all_tracks = <<>> /\ ret = "none" /\ cache = <<>> /\ answered = <<>>

(***************************************************************************)
(* String helpers (Rust str methods).                                      *)
(***************************************************************************)
Min(a, b) == IF a < b THEN a ELSE b

Digits == <<"0", "1", "2", "3", "4", "5", "6", "7", "8", "9">>

IsDigit(c) == \E i \in 1..10 : Digits[i] = c

DigitVal(c) == (CHOOSE i \in 1..10 : Digits[i] = c) - 1

StartsWith(s, p) == Len(s) >= Len(p) /\ SubSeq(s, 1, Len(p)) = p

Contains(s, sub) ==
    \E i \in 1..(Len(s) - Len(sub) + 1) : SubSeq(s, i, i + Len(sub) - 1) = sub

ContainsChar(s, c) == \E i \in 1..Len(s) : s[i] = c

Replace(s, from, to) == [i \in 1..Len(s) |-> IF s[i] = from THEN to ELSE s[i]]

\* str::to_lowercase, on the alphabet the model uses
LowerChar(c) ==
    CASE c = "A" -> "a"
      [] c = "C" -> "c"
      [] c = "W" -> "w"
      [] c = "M" -> "m"
      [] OTHER -> c

ToLowercase(s) == [i \in 1..Len(s) |-> LowerChar(s[i])]

\* the position of the first sep in s, 0 when there is none
FirstIndex(s, sep) ==
    IF ContainsChar(s, sep)
    THEN CHOOSE i \in 1..Len(s) : s[i] = sep /\ \A j \in 1..(i - 1) : s[j] # sep
    ELSE 0

\* str::splitn(n, sep): at most n pieces, the last one holding the rest
RECURSIVE SplitN(_, _, _)
SplitN(s, n, sep) ==
    IF n <= 1 \/ FirstIndex(s, sep) = 0
    THEN <<s>>
    ELSE LET i == FirstIndex(s, sep)
         IN  <<SubSeq(s, 1, i - 1)>> \o SplitN(SubSeq(s, i + 1, Len(s)), n - 1, sep)

\* str::split(sep): every piece
Split(s, sep) == SplitN(s, Len(s) + 1, sep)

ParseErr == -1

RECURSIVE DigitsValue(_)
DigitsValue(s) ==
    IF s = <<>> THEN 0
    ELSE DigitsValue(SubSeq(s, 1, Len(s) - 1)) * 10 + DigitVal(s[Len(s)])

\* str::parse::<u32>() / parse::<u64>(): an optional '+', then one or more
\* digits; anything else is an error.  (The strings of the model are short
\* enough for the value to fit.)
ParseUInt(s) ==
    LET body == IF s # <<>> /\ s[1] = "+" THEN Tail(s) ELSE s
    IN  IF body # <<>> /\ \A i \in 1..Len(body) : IsDigit(body[i])
        THEN DigitsValue(body)
        ELSE ParseErr

\* u32::to_string
RECURSIVE U32ToString(_)
U32ToString(n) ==
    IF n < 10 THEN <<Digits[n + 1]>>
    ELSE U32ToString(n \div 10) \o <<Digits[(n % 10) + 1]>>

truncate_str_short(s, max_chars) == SubSeq(s, 1, Min(Len(s), max_chars - 2))

truncate_str(s, max_chars) == SubSeq(s, 1, Min(Len(s), max_chars))

(***************************************************************************)
(* The enums of api_requester.rs.                                          *)
(***************************************************************************)
ApiType == {"Lastfm", "Librefm", "Listenbrainz"}

TimePeriod == {"OneWeek", "OneMonth", "ThreeMonths", "SixMonths", "OneYear", "AllTime"}

EntryType == {"Artist", "Album", "Track"}

\* TimePeriod's Display (strum serialize)
TimePeriodToString(p) ==
    CASE p = "OneWeek"     -> <<"1", " ", "w", "e", "e", "k">>
      [] p = "OneMonth"    -> <<"1", " ", "m", "o", "n", "t", "h">>
      [] p = "ThreeMonths" -> <<"3", " ", "m", "o", "n", "t", "h", "s">>
      [] p = "SixMonths"   -> <<"6", " ", "m", "o", "n", "t", "h", "s">>
      [] p = "OneYear"     -> <<"1", " ", "y", "e", "a", "r">>
      [] p = "AllTime"     -> <<"A", "l", "l", " ", "t", "i", "m", "e">>

MAX_SIZE == 7

MIN_SIZE == 1

(***************************************************************************)
(* parse_collage_arg (utils.rs).                                           *)
(***************************************************************************)
W_artist == <<"a", "r", "t", "i", "s", "t">>
W_album == <<"a", "l", "b", "u", "m">>
W_track == <<"t", "r", "a", "c", "k">>
W_notext == <<"n", "o", "t", "e", "x", "t">>
W_nonames == <<"n", "o", "n", "a", "m", "e", "s">>
W_clean == <<"c", "l", "e", "a", "n">>
W_all == <<"a", "l", "l">>
W_collage == <<"c", "o", "l", "l", "a", "g", "e">>

SeqContains(splits, w) == \E i \in 1..Len(splits) : splits[i] = w

\* the locals before the loop, "clean" missing from the flag words
ParseStartNoClean(splits) ==
    [size |-> 3, period |-> "AllTime", entry_type |-> "Album",
     no_text |-> SeqContains(splits, W_notext) \/ SeqContains(splits, W_nonames),
     size_found |-> FALSE, period_found |-> FALSE, entry_type_found |-> FALSE]

\* the locals of parse_collage_arg before the loop
ParseStart(splits) ==
    [size |-> 3, period |-> "AllTime", entry_type |-> "Album",
     no_text |-> SeqContains(splits, W_notext) \/ SeqContains(splits, W_nonames)
                 \/ SeqContains(splits, W_clean),
     size_found |-> FALSE, period_found |-> FALSE, entry_type_found |-> FALSE]

\* the entry-type check of one token: the type it names, "None" otherwise
EntryTypeOf(split) ==
    IF StartsWith(split, W_artist) THEN "Artist"
    ELSE IF StartsWith(split, W_album) THEN "Album"
    ELSE IF StartsWith(split, W_track) THEN "Track"
    ELSE "None"

\* the size check with its upper limit left out
SizeOfNoUpper(fragment) ==
    LET parsed == ParseUInt(Head(SplitN(fragment, 2, "x")))
    IN  IF parsed # ParseErr /\ parsed > 0 THEN parsed ELSE 0

\* the size check of one token: the size it gives, 0 when it gives none
SizeOf(fragment) ==
    LET parsed == ParseUInt(Head(SplitN(fragment, 2, "x")))
    IN  IF parsed # ParseErr /\ parsed > 0 /\ parsed <= 7 THEN parsed ELSE 0

\* the period check of one token, st being the locals so far
PeriodCheck(split, fragment, st) ==
    LET is_day == ContainsChar(fragment, "d")
        is_week == ContainsChar(fragment, "w")
        is_month == ContainsChar(fragment, "m")
        is_year == ContainsChar(fragment, "y")
        is_all == ContainsChar(fragment, "o") \/ Contains(fragment, W_all)
        first_digit == ParseUInt(SubSeq(split, 1, Min(Len(split), 1)))
    IN  IF first_digit # ParseErr
        THEN LET s1 == IF (is_day /\ first_digit = 7) \/ (is_week /\ first_digit = 1)
                       THEN [st EXCEPT !.period = "OneWeek", !.period_found = TRUE]
                       ELSE st
                 s2 == IF (is_month /\ first_digit = 1) \/ first_digit = 3
                          \/ first_digit = 6
                       THEN [s1 EXCEPT !.period = CASE first_digit = 1 -> "OneMonth"
                                                    [] first_digit = 3 -> "ThreeMonths"
                                                    [] first_digit = 6 -> "SixMonths"
                                                    [] OTHER -> s1.period,
                                       !.period_found = TRUE]
                       ELSE s1
             IN  IF is_year /\ first_digit = 1
                 THEN [s2 EXCEPT !.period = "OneYear", !.period_found = TRUE]
                 ELSE s2
        ELSE IF is_week \/ is_month \/ is_year \/ is_all
        THEN [st EXCEPT !.period = IF is_week THEN "OneWeek"
                                   ELSE IF is_month THEN "OneMonth"
                                   ELSE IF is_year THEN "OneYear"
                                   ELSE "AllTime",
                        !.period_found = TRUE]
        ELSE st

\* an iteration whose size branch does not continue: the token that gave the
\* size goes on to the period check
ParseTokenNoContinue(split, st) ==
    IF ~st.entry_type_found /\ EntryTypeOf(split) # "None"
    THEN [st EXCEPT !.entry_type = EntryTypeOf(split), !.entry_type_found = TRUE]
    ELSE LET fragment == truncate_str(split, 4)
             sized == IF ~st.size_found /\ SizeOf(fragment) # 0
                      THEN [st EXCEPT !.size = SizeOf(fragment), !.size_found = TRUE]
                      ELSE st
         IN  IF ~sized.period_found
             THEN PeriodCheck(split, fragment, sized)
             ELSE sized

\* an iteration that lets a later token claim the size again
ParseTokenLastSize(split, st) ==
    IF ~st.entry_type_found /\ EntryTypeOf(split) # "None"
    THEN [st EXCEPT !.entry_type = EntryTypeOf(split), !.entry_type_found = TRUE]
    ELSE LET fragment == truncate_str(split, 4)
         IN  IF SizeOf(fragment) # 0
             THEN [st EXCEPT !.size = SizeOf(fragment), !.size_found = TRUE]
             ELSE IF ~st.period_found
             THEN PeriodCheck(split, fragment, st)
             ELSE st

\* one iteration of the loop over the splits
ParseToken(split, st) ==
    IF ~st.entry_type_found /\ EntryTypeOf(split) # "None"
    THEN [st EXCEPT !.entry_type = EntryTypeOf(split), !.entry_type_found = TRUE]
    ELSE LET fragment == truncate_str(split, 4)
         IN  IF ~st.size_found /\ SizeOf(fragment) # 0
             THEN [st EXCEPT !.size = SizeOf(fragment), !.size_found = TRUE]
             ELSE IF ~st.period_found
             THEN PeriodCheck(split, fragment, st)
             ELSE st

RECURSIVE ParseLoop(_, _)
ParseLoop(splits, st) ==
    IF splits = <<>> THEN st
    ELSE ParseLoop(Tail(splits), ParseToken(Head(splits), st))

parse_collage_arg(a) ==
    LET splits == SplitN(a, 4, " ")
        st == ParseLoop(splits, ParseStart(splits))
    IN  [size |-> st.size, period |-> st.period, entry_type |-> st.entry_type,
         no_text |-> st.no_text]

(***************************************************************************)
(* serde_json values.  A string is a sequence of characters; a URL is a    *)
(* sequence of chunks, the placeholder fingerprint being two of them.      *)
(***************************************************************************)
None == [some |-> FALSE]

Some(x) == [some |-> TRUE, v |-> x]

JNull == [t |-> "null"]

JStr(s) == [t |-> "str", s |-> s]

JNum(n) == [t |-> "num", n |-> n]

JArr(a) == [t |-> "arr", a |-> a]

JObj(m) == [t |-> "obj", m |-> m]

\* a key left out of an object
Absent == [t |-> "absent"]

\* the object holding the fields of f that are not Absent
MkObj(f) == JObj([k \in {x \in DOMAIN f : f[x] # Absent} |-> f[k]])

\* value[key]: Null unless value is an object holding key
Index(value, key) ==
    IF value.t = "obj" /\ key \in DOMAIN value.m THEN value.m[key] ELSE JNull

\* value.get(key)
Get(value, key) ==
    IF value.t = "obj" /\ key \in DOMAIN value.m THEN Some(value.m[key]) ELSE None

as_str(value) == IF value.t = "str" THEN Some(value.s) ELSE None

as_u64(value) == IF value.t = "num" /\ value.n >= 0 THEN Some(value.n) ELSE None

as_array(value) == IF value.t = "arr" THEN Some(value.a) ELSE None

\* Option<&str>::unwrap_or_default
StrOrDefault(o) == IF o.some THEN o.v ELSE <<>>

\* Option<u64>::unwrap_or_default
U64OrDefault(o) == IF o.some THEN o.v ELSE 0

\* the Listenbrainz way of reading a count, put where the Lastfm way belongs
StrCountAsU64(value) == U64OrDefault(as_u64(value))

\* .as_str().unwrap_or_default().parse::<u64>().unwrap_or_default()
StrCount(value) ==
    LET parsed == ParseUInt(StrOrDefault(as_str(value)))
    IN  IF parsed = ParseErr THEN 0 ELSE parsed

PLACEHOLDER == <<"2a96cbd8b46e442f", "c41c2b86b821562f">>

get_first_lastfm_image(json_value) ==
    LET images == as_array(Index(json_value, "image"))
        url == IF images.some /\ images.v # <<>>
               THEN StrOrDefault(as_str(Index(images.v[1], "#text")))
               ELSE <<>>
    IN  IF url = <<>> \/ Contains(url, PLACEHOLDER) THEN None ELSE Some(url)

get_biggest_lastfm_image(json_value) ==
    LET images == as_array(Index(json_value, "image"))
        url == IF images.some /\ images.v # <<>>
               THEN StrOrDefault(as_str(Index(images.v[Len(images.v)], "#text")))
               ELSE <<>>
    IN  IF url = <<>> \/ Contains(url, PLACEHOLDER) THEN None ELSE Some(url)

get_base_url(a) ==
    CASE a = "Lastfm" -> "https://ws.audioscrobbler.com/2.0/"
      [] a = "Librefm" -> "https://libre.fm/2.0/"
      [] a = "Listenbrainz" -> "https://api.listenbrainz.org/1/"

\* a table with one arm lost to a fallback
time_period_to_api_string_fallback(d, a) ==
    IF a \in {"Lastfm", "Librefm"}
    THEN CASE d = "OneWeek" -> "7day"
           [] d = "OneMonth" -> "1month"
           [] d = "ThreeMonths" -> "3month"
           [] d = "SixMonths" -> "6month"
           [] d = "OneYear" -> "12month"
           [] d = "AllTime" -> "overall"
    ELSE CASE d = "OneWeek" -> "week"
           [] d = "OneMonth" -> "month"
           [] d = "ThreeMonths" -> "quarter"
           [] d = "OneYear" -> "year"
           [] d = "AllTime" -> "all_time"
           [] OTHER -> ""

time_period_to_api_string(d, a) ==
    CASE a \in {"Lastfm", "Librefm"} ->
            (CASE d = "OneWeek" -> "7day"
               [] d = "OneMonth" -> "1month"
               [] d = "ThreeMonths" -> "3month"
               [] d = "SixMonths" -> "6month"
               [] d = "OneYear" -> "12month"
               [] d = "AllTime" -> "overall")
      [] a = "Listenbrainz" ->
            (CASE d = "OneWeek" -> "week"
               [] d = "OneMonth" -> "month"
               [] d = "ThreeMonths" -> "quarter"
               [] d = "SixMonths" -> "half_yearly"
               [] d = "OneYear" -> "year"
               [] d = "AllTime" -> "all_time")

(***************************************************************************)
(* The entities and the top-list and profile adapters.                     *)
(***************************************************************************)
Ok(v) == [ok |-> TRUE, v |-> v]

Err(msg) == [ok |-> FALSE, err |-> msg]

Album(name, artist, album_art_url, user_playcount) ==
    [name |-> name, artist |-> artist, album_art_url |-> album_art_url,
     playcount |-> 0, listeners |-> 0, user_playcount |-> user_playcount,
     tags |-> None]

Artist(name, user_playcount) ==
    [name |-> name, playcount |-> 0, listeners |-> 0,
     user_playcount |-> user_playcount, tags |-> None]

ScrobbleUser(username, playcount, artist_count, track_count, album_count, pic, reg) ==
    [username |-> username, playcount |-> playcount, artist_count |-> artist_count,
     album_count |-> album_count, track_count |-> track_count,
     profile_pic_url |-> pic, registered_date |-> reg]

\* .as_array().ok_or(..).into_iter().flatten(): the items, none for a non-array
ArrayItems(value) == IF value.t = "arr" THEN value.a ELSE <<>>

LimitOr(lim, default) == IF lim.some THEN lim.v ELSE default

DEFAULT_LIMIT_LISTENBRAINZ == 100

DEFAULT_LIMIT_LASTFM == 200

USERNAME == <<"u", "s", "e", "r">>

\* the request each fetch builds
BuildRequest(o, a, d, lim) ==
    IF o = "user_info"
    THEN [base |-> get_base_url(a), method |-> "user.getInfo", period |-> "",
          limit |-> 0, user |-> USERNAME]
    ELSE LET duration_str == time_period_to_api_string(d, a)
         IN  IF a = "Listenbrainz"
             THEN [base |-> get_base_url(a),
                   method |-> IF o = "albums" THEN "releases" ELSE "artists",
                   period |-> duration_str,
                   limit |-> LimitOr(lim, DEFAULT_LIMIT_LISTENBRAINZ),
                   user |-> USERNAME]
             ELSE [base |-> get_base_url(a),
                   method |-> IF o = "albums" THEN "user.gettopalbums"
                              ELSE "user.gettopartists",
                   period |-> duration_str,
                   limit |-> LimitOr(lim, DEFAULT_LIMIT_LASTFM),
                   user |-> USERNAME]

CoverArtUrl(mbid, px) == <<"https://coverartarchive.org/release/">> \o mbid \o <<px>>

ListenbrainzAlbum(album_json) ==
    LET mbid == as_str(Index(album_json, "release_mbid"))
    IN  Album(StrOrDefault(as_str(Index(album_json, "release_name"))),
              StrOrDefault(as_str(Index(album_json, "artist_name"))),
              IF mbid.some THEN Some(CoverArtUrl(mbid.v, "/front-500")) ELSE None,
              U64OrDefault(as_u64(Index(album_json, "listen_count"))))

LastfmAlbum(album_json) ==
    Album(StrOrDefault(as_str(Index(album_json, "name"))),
          StrOrDefault(as_str(Index(Index(album_json, "artist"), "name"))),
          get_biggest_lastfm_image(album_json),
          StrCount(Index(album_json, "playcount")))

ListenbrainzArtist(artists_json) ==
    Artist(StrOrDefault(as_str(Index(artists_json, "artist_name"))),
           U64OrDefault(as_u64(Index(artists_json, "listen_count"))))

LastfmArtist(artist_json) ==
    Artist(StrOrDefault(as_str(Index(artist_json, "name"))),
           StrCount(Index(artist_json, "playcount")))

LastfmUser(user_json) ==
    LET registered == Get(Index(user_json, "registered"), "#text")
    IN  ScrobbleUser(USERNAME,
                     StrCount(Index(user_json, "playcount")),
                     StrCount(Index(user_json, "artist_count")),
                     StrCount(Index(user_json, "track_count")),
                     StrCount(Index(user_json, "album_count")),
                     get_biggest_lastfm_image(user_json),
                     IF registered.some THEN as_u64(registered.v) ELSE None)

\* what a fetch makes of the client's answer r (Ok(body) or Err(message))
FetchResult(o, a, r) ==
    IF ~r.ok THEN r
    ELSE IF o = "albums"
    THEN IF a = "Listenbrainz"
         THEN LET items == ArrayItems(Index(Index(r.v, "payload"), "releases"))
              IN  Ok([i \in 1..Len(items) |-> ListenbrainzAlbum(items[i])])
         ELSE LET items == ArrayItems(Index(Index(r.v, "topalbums"), "album"))
              IN  Ok([i \in 1..Len(items) |-> LastfmAlbum(items[i])])
    ELSE IF o = "artists"
    THEN IF a = "Listenbrainz"
         THEN LET items == ArrayItems(Index(Index(r.v, "payload"), "artists"))
              IN  Ok([i \in 1..Len(items) |-> ListenbrainzArtist(items[i])])
         ELSE LET items == ArrayItems(Index(Index(r.v, "topartists"), "artist"))
              IN  Ok([i \in 1..Len(items) |-> LastfmArtist(items[i])])
    ELSE Ok(LastfmUser(Index(r.v, "user")))

(***************************************************************************)
(* collage_command's inline buttons and callback_handler's way back        *)
(* (main.rs).                                                              *)
(***************************************************************************)
FromIdStr == <<"4", "2">>

\* format!("{} collage {} {} {}", from.id, size, period_str_cb_data, notext_str)
CallbackData(size, period, notext_str) ==
    FromIdStr \o <<" ">> \o W_collage \o <<" ">> \o U32ToString(size) \o <<" ">>
        \o Replace(TimePeriodToString(period), " ", "_") \o <<" ">> \o notext_str

\* the button row with the plus button offered at every size
CollageButtonsNoMax(r) ==
    LET notext_str == IF r.no_text THEN W_clean ELSE <<>>
        notext_str_inverse == IF r.no_text THEN <<>> ELSE W_clean
    IN  <<CallbackData(r.size + 1, r.period, notext_str)>>
        \o (IF r.size > MIN_SIZE
            THEN <<CallbackData(r.size - 1, r.period, notext_str)>> ELSE <<>>)
        \o <<CallbackData(r.size, r.period, notext_str_inverse)>>

\* the button row collage_command builds from the parsed tuple
CollageButtons(r) ==
    LET notext_str == IF r.no_text THEN W_clean ELSE <<>>
        notext_str_inverse == IF r.no_text THEN <<>> ELSE W_clean
    IN  (IF r.size < MAX_SIZE
         THEN <<CallbackData(r.size + 1, r.period, notext_str)>> ELSE <<>>)
        \o (IF r.size > MIN_SIZE
            THEN <<CallbackData(r.size - 1, r.period, notext_str)>> ELSE <<>>)
        \o <<CallbackData(r.size, r.period, notext_str_inverse)>>

\* callback_handler: the command word and the lowercased argument of a button
CallbackWord(data) == SplitN(data, 3, " ")[2]

CallbackArg(data) ==
    LET splits == SplitN(data, 3, " ")
    IN  IF Len(splits) = 3 THEN ToLowercase(splits[3]) ELSE <<>>

(***************************************************************************)
(* The phrases a user types: up to MaxTokens words, single-space separated.*)
(***************************************************************************)
Vocab ==
    { <<>>,
      W_clean, W_notext, W_artist, W_track, W_collage,
      <<"0">>, <<"4">>, <<"5">>, <<"8">>,
      <<"3", "x", "3">>, <<"1", "0", "x", "1", "0">>,
      <<"1", "m">>, <<"3", "m">>, <<"6", "m">>, <<"7", "d">>, <<"1", "y">>,
      <<"3", "y">>,
      <<"w", "e", "e", "k">>,
      <<"a", "l", "l", "t", "i", "m", "e">> }

RECURSIVE Join(_)
Join(ts) ==
    IF ts = <<>> THEN <<>>
    ELSE IF Len(ts) = 1 THEN ts[1]
    ELSE ts[1] \o <<" ">> \o Join(Tail(ts))

Phrases == {Join(ts) : ts \in UNION {[1..n -> Vocab] : n \in 0..MaxTokens}}

NoRes == [size |-> 0, period |-> "None", entry_type |-> "None", no_text |-> FALSE]

ParseIdle == arg = <<>> /\ cpc = "off" /\ res = NoRes /\ buttons = <<>>

InitParse ==
    /\ arg \in Phrases
    /\ cpc = "start"
    /\ res = NoRes
    /\ buttons = <<>>
    /\ AdapterIdle
    /\ NetIdle
    /\ ProfileIdle
    /\ InfosIdle
    /\ AnalIdle
    /\ BotIdle
    /\ SliceIdle

\* collage_command, to the parsed tuple
CollageParse ==
    /\ cpc = "start"
    /\ res' = parse_collage_arg(arg)
    /\ cpc' = "parsed"
    /\ UNCHANGED <<arg, buttons>>
    /\ UNCHANGED adapterVars
    /\ UNCHANGED netVars
    /\ UNCHANGED profileVars
    /\ UNCHANGED infosVars
    /\ UNCHANGED analVars
    /\ UNCHANGED botVars
    /\ UNCHANGED sliceVars

\* collage_command, the albums fetched and the image made: the buttons
CollageRender ==
    /\ cpc = "parsed"
    /\ buttons' = CollageButtons(res)
    /\ cpc' = "rendered"
    /\ UNCHANGED <<arg, res>>
    /\ UNCHANGED adapterVars
    /\ UNCHANGED netVars
    /\ UNCHANGED profileVars
    /\ UNCHANGED infosVars
    /\ UNCHANGED analVars
    /\ UNCHANGED botVars
    /\ UNCHANGED sliceVars

\* collage_command, the fetch or the image failed: an error text, no buttons
CollageFail ==
    /\ cpc = "parsed"
    /\ cpc' = "failed"
    /\ UNCHANGED <<arg, res, buttons>>
    /\ UNCHANGED adapterVars
    /\ UNCHANGED netVars
    /\ UNCHANGED profileVars
    /\ UNCHANGED infosVars
    /\ UNCHANGED analVars
    /\ UNCHANGED botVars
    /\ UNCHANGED sliceVars

\* callback_handler, "collage" branch with two or more argument words
CallbackPress ==
    /\ cpc = "rendered"
    /\ \E i \in 1..Len(buttons) :
        /\ CallbackWord(buttons[i]) = W_collage
        /\ Len(Split(CallbackArg(buttons[i]), " ")) >= 2
        /\ arg' = CallbackArg(buttons[i])
    /\ cpc' = "start"
    /\ res' = NoRes
    /\ buttons' = <<>>
    /\ UNCHANGED adapterVars
    /\ UNCHANGED netVars
    /\ UNCHANGED profileVars
    /\ UNCHANGED infosVars
    /\ UNCHANGED analVars
    /\ UNCHANGED botVars
    /\ UNCHANGED sliceVars

NextParse == CollageParse \/ CollageRender \/ CollageFail \/ CallbackPress

SpecParse == InitParse /\ [][NextParse]_vars

(***************************************************************************)
(* Provider payloads: the fixtures the adapters are run on.                *)
(***************************************************************************)
TextObj(u) == JObj([k \in {"#text"} |-> JStr(u)])

RealUrl == <<"https://lastfm.freetls.fastly.net/i/u/300x300/", "b5a1c3d0", ".jpg">>

PlaceholderUrl ==
    <<"https://lastfm.freetls.fastly.net/i/u/300x300/">> \o PLACEHOLDER \o <<".png">>

HalfUrl == <<"https://lastfm.freetls.fastly.net/i/u/300x300/", "2a96cbd8b46e442f", ".png">>

CountFields ==
    { Absent, JNull, JNum(42), JStr(<<>>), JStr(<<"4", "2">>), JStr(<<"0", "0", "7">>),
      JStr(<<"a", "b", "c">>), JStr(<<"4", "x">>), JStr(<<"+", "7">>) }

ImageFields ==
    { Absent, JStr(RealUrl), JArr(<<>>),
      JArr(<<TextObj(RealUrl)>>),
      JArr(<<TextObj(HalfUrl)>>),
      JArr(<<TextObj(RealUrl), TextObj(PlaceholderUrl)>>),
      JArr(<<TextObj(PlaceholderUrl), TextObj(RealUrl)>>),
      JArr(<<TextObj(RealUrl), TextObj(<<>>)>>),
      JArr(<<TextObj(RealUrl), JObj([k \in {"size"} |-> JStr(<<"m">>)])>>) }

NameB == <<"B">>

NameA == <<"A">>

LastfmAlbumJson(c, im) ==
    MkObj([name |-> JStr(NameB), artist |-> JObj([name |-> JStr(NameA)]),
           playcount |-> c, image |-> im])

LastfmAlbumJsons ==
    {LastfmAlbumJson(c, JArr(<<TextObj(RealUrl)>>)) : c \in CountFields}
    \cup {LastfmAlbumJson(JStr(<<"4", "2">>), im) : im \in ImageFields}
    \cup {JObj(<<>>)}

LastfmArtistJsons ==
    {MkObj([name |-> JStr(NameA), playcount |-> c]) : c \in CountFields}

UserCountKeys == {"playcount", "artist_count", "track_count", "album_count"}

LastfmUserJsons ==
    {MkObj([playcount |-> IF k = "playcount" THEN c ELSE JStr(<<"7">>),
            artist_count |-> IF k = "artist_count" THEN c ELSE JStr(<<"7">>),
            track_count |-> IF k = "track_count" THEN c ELSE JStr(<<"7">>),
            album_count |-> IF k = "album_count" THEN c ELSE JStr(<<"7">>),
            registered |-> JObj([k2 \in {"#text"} |-> JNum(1200000000)]),
            image |-> JArr(<<TextObj(RealUrl)>>)]) :
        k \in UserCountKeys, c \in CountFields}
    \cup {MkObj([playcount |-> JStr(<<"4", "2">>), image |-> im]) : im \in ImageFields}

Mbid == <<"0a1b2c3d">>

ListenbrainzReleaseJsons ==
    {MkObj([release_name |-> JStr(NameB), artist_name |-> JStr(NameA),
            release_mbid |-> m, listen_count |-> c]) :
        m \in {Absent, JStr(Mbid)}, c \in {Absent, JNum(5), JStr(<<"5">>)}}

ListenbrainzArtistJsons ==
    {MkObj([artist_name |-> JStr(NameA), listen_count |-> c]) :
        c \in {Absent, JNum(5), JStr(<<"5">>)}}

\* the arrays of at most MaxEntries items of S
Arrays(S) == {JArr(a) : a \in UNION {[1..n -> S] : n \in 0..MaxEntries}}

\* a body {outer: {inner: v}}
Nested(outer, inner, v) == JObj([k \in {outer} |-> JObj([k2 \in {inner} |-> v])])

\* what is not an array where the list belongs
NotArrays == {JNull, JStr(<<>>), JObj(<<>>)}

Bodies(o, a) ==
    IF o = "albums"
    THEN IF a = "Listenbrainz"
         THEN {Nested("payload", "releases", v) :
                  v \in Arrays(ListenbrainzReleaseJsons) \cup NotArrays}
         ELSE {Nested("topalbums", "album", v) :
                  v \in Arrays(LastfmAlbumJsons) \cup NotArrays}
    ELSE IF o = "artists"
    THEN IF a = "Listenbrainz"
         THEN {Nested("payload", "artists", v) :
                  v \in Arrays(ListenbrainzArtistJsons) \cup NotArrays}
         ELSE {Nested("topartists", "artist", v) :
                  v \in Arrays(LastfmArtistJsons) \cup NotArrays}
    ELSE {JObj([k \in {"user"} |-> u]) : u \in LastfmUserJsons} \cup {JObj(<<>>)}

USER_NOT_FOUND == "No such user"

PRIVATE_PROFILE == "Your scrobbles are hidden. To use the bot, disable that at https://www.last.fm/settings/privacy"

ERR_MSG == "Oopsie doopsie, I did a fucky wucky!"

TRANSPORT_ERROR == "error sending request"

\* what CLIENT's send().await and json().await give a fetch
Responses(o, a) ==
    {Ok(b) : b \in Bodies(o, a)}
    \cup {Err(USER_NOT_FOUND), Err(PRIVATE_PROFILE), Err(TRANSPORT_ERROR)}

(***************************************************************************)
(* One fetch_albums / fetch_artists / fetch_user_info call.                *)
(***************************************************************************)
InitAdapter ==
    /\ op \in {"albums", "artists", "user_info"}
    /\ api_type \in IF op = "user_info" THEN {"Lastfm", "Librefm"} ELSE ApiType
    /\ duration \in IF op = "user_info" THEN {"none"} ELSE TimePeriod
    /\ limit \in IF op = "user_info" THEN {None} ELSE {None, Some(9)}
    /\ apc = "start"
    /\ request = "none"
    /\ json = "none"
    /\ result = "none"
    /\ ParseIdle
    /\ NetIdle
    /\ ProfileIdle
    /\ InfosIdle
    /\ AnalIdle
    /\ BotIdle
    /\ SliceIdle

\* the fetch up to send(): the period translated, the request built
AdapterSend ==
    /\ apc = "start"
    /\ request' = BuildRequest(op, api_type, duration, limit)
    /\ apc' = "sent"
    /\ UNCHANGED <<op, api_type, duration, limit, json, result>>
    /\ UNCHANGED parseVars
    /\ UNCHANGED netVars
    /\ UNCHANGED profileVars
    /\ UNCHANGED infosVars
    /\ UNCHANGED analVars
    /\ UNCHANGED botVars
    /\ UNCHANGED sliceVars

\* the answer arrives and the fetch returns
AdapterReceive ==
    /\ apc = "sent"
    /\ \E r \in Responses(op, api_type) :
        /\ json' = r
        /\ result' = FetchResult(op, api_type, r)
    /\ apc' = "done"
    /\ UNCHANGED <<op, api_type, duration, limit, request>>
    /\ UNCHANGED parseVars
    /\ UNCHANGED netVars
    /\ UNCHANGED profileVars
    /\ UNCHANGED infosVars
    /\ UNCHANGED analVars
    /\ UNCHANGED botVars
    /\ UNCHANGED sliceVars

NextAdapter == AdapterSend \/ AdapterReceive

SpecAdapter == InitAdapter /\ [][NextAdapter]_vars

(***************************************************************************)
(* CLIENT: Response200Middleware, then ForceCacheMiddleware, then the      *)
(* cache, then the network.  The first middleware added is the outermost:  *)
(* a request passes them in this order and the response in the reverse.    *)
(* A cache-control header value is a sequence of chunks.                   *)
(***************************************************************************)
CACHE_TTL == 300

MAX_STALE == 300

\* the clock's step: half the cache's time to live
TICK == CACHE_TTL \div 2

CC_PREFER_CACHED == <<"max-stale=300">>

CC_NO_CACHE == <<"no-cache", ", ", "must-revalidate">>

CC_FORCED == <<"max-age=300", ", ", "public", ", ", "immutable">>

\* the directives of a list of cache-control header values
Directives(values) ==
    UNION {{values[i][j] : j \in 1..Len(values[i])} : i \in 1..Len(values)} \ {", "}

\* fetch_recent_tracks' cache_control
cache_control_always_stale(prefer) == <<CC_PREFER_CACHED>>

cache_control(prefer) == IF prefer THEN <<CC_PREFER_CACHED>> ELSE <<CC_NO_CACHE>>

\* ForceCacheMiddleware's no_cache: the first cache-control value holds "no-cache"
no_cache(headers) == headers # <<>> /\ Contains(headers[1], <<"no-cache">>)

\* ForceCacheMiddleware, on the way in
ForceCacheRequest(headers) ==
    IF ~no_cache(headers) THEN Append(headers, <<"max-stale=300">>) ELSE headers

\* ForceCacheMiddleware, on the way out: an error passes through (the ? operator)
ForceCacheResponse(headers, r) ==
    IF r.ok /\ ~no_cache(headers)
    THEN Ok([r.v EXCEPT !.cc = Directives(<<CC_FORCED>>)])
    ELSE r

CanonicalReason(code) ==
    CASE code = 500 -> "Internal Server Error"
      [] code = 429 -> "Too Many Requests"
      [] OTHER -> ERR_MSG

\* Response200Middleware passing every response on
Response200Pass(r) == r

\* Response200Middleware, on the way out
Response200(r) ==
    IF ~r.ok THEN r
    ELSE IF r.v.status >= 200 /\ r.v.status <= 299 THEN r
    ELSE Err(CASE r.v.status = 404 -> USER_NOT_FOUND
               [] r.v.status = 403 -> PRIVATE_PROFILE
               [] OTHER -> CanonicalReason(r.v.status))

\* what send().await gives for what the cache layer gives
Outward(headers, r) == Response200(ForceCacheResponse(headers, r))

\* the client a call sends through
ClientOf(c) == IF c = "art" THEN "CLIENT_NOCACHE" ELSE "CLIENT"

\* CLIENT_NOCACHE has Response200Middleware alone
OutwardOf(client, headers, r) ==
    IF client = "CLIENT" THEN Outward(headers, r) ELSE Response200(r)

(***************************************************************************)
(* The cache layer: CacheMode::Default over a Moka store whose entries     *)
(* live CACHE_TTL seconds.  Only a 200 that is storable by its own headers *)
(* is stored, with the headers the provider sent.                          *)
(***************************************************************************)
Response(code, cc, body) == [status |-> code, cc |-> cc, body |-> body]

Entry(r) == Some([age |-> 0, cc |-> r.cc, body |-> r.body])

Cached(e) == Response(200, e.cc, e.body)

Age(e) == e.age

\* freshness lifetime by the stored headers (the providers modelled send no max-age)
MaxAge(e) == 0

\* the stored response may answer the request without going to the provider
Satisfies(e, dirs) ==
    /\ "no-cache" \notin dirs
    /\ \/ MaxAge(e) > Age(e)
       \/ /\ "max-stale=300" \in dirs
          /\ "must-revalidate" \notin e.cc
          /\ MAX_STALE > Age(e) - MaxAge(e)

Storable(r) == r.status = 200 /\ "no-store" \notin r.cc

\* Moka's time_to_live: what is left of a store dt seconds later
Later(store, dt) ==
    [u \in DOMAIN store |->
        IF ~store[u].some THEN None
        ELSE IF store[u].v.age + dt >= CACHE_TTL THEN None
        ELSE Some([store[u].v EXCEPT !.age = @ + dt])]

(***************************************************************************)
(* The calls: their URLs, what the providers may answer, what they make    *)
(* of a body.                                                              *)
(***************************************************************************)
URL_PLAYING_NOW == <<get_base_url("Listenbrainz"), "user/">> \o USERNAME \o <<"/playing-now">>

URL_LISTENS == <<get_base_url("Listenbrainz"), "user/">> \o USERNAME \o <<"/listens?count=3">>

MethodUrl(a, method) == <<get_base_url(a), "?method=", method, "&user=">> \o USERNAME

\* the first URL of a call
FirstUrl(c, a) ==
    IF c = "recent"
    THEN IF a = "Listenbrainz" THEN URL_PLAYING_NOW ELSE MethodUrl(a, "user.getrecenttracks")
    ELSE IF c = "art" THEN RealUrl
    ELSE MethodUrl("Lastfm", CASE c = "track" -> "track.getInfo"
                               [] c = "album" -> "album.getInfo"
                               [] c = "artist" -> "artist.getInfo")

Urls(c, a) ==
    IF c = "recent" /\ a = "Listenbrainz" THEN {URL_PLAYING_NOW, URL_LISTENS}
    ELSE {FirstUrl(c, a)}

\* the cache_control header a call sets on its requests
CallHeaders(c, prefer) == IF c = "recent" THEN cache_control(prefer) ELSE <<>>

Track(name, playing) == [name |-> name, now_playing |-> playing]

parse_listenbrainz_tracks_np(json_arr, playing) ==
    LET items == ArrayItems(json_arr)
        Meta(t) == IF Get(t, "track_metadata").some THEN Get(t, "track_metadata").v ELSE t
    IN  [i \in 1..Len(items) |->
            Track(StrOrDefault(as_str(Index(Meta(items[i]), "track_name"))), playing)]

parse_lastfm_tracks(json_arr) ==
    LET items == ArrayItems(json_arr)
        Attr(t) == Get(Index(t, "@attr"), "nowplaying")
    IN  [i \in 1..Len(items) |->
            Track(StrOrDefault(as_str(Index(items[i], "name"))),
                  Attr(items[i]).some
                  /\ StrOrDefault(as_str(Attr(items[i]).v)) = <<"t", "r", "u", "e">>)]

\* a body that is not JSON
NotJson == [t |-> "invalid"]

DECODE_ERROR == "error decoding response body"

\* response.json()
ResponseJson(r) == IF r.body = NotJson THEN Err(DECODE_ERROR) ELSE Ok(r.body)

\* the i-th listen of a payload, named by its place
ListenJson(i) == JObj([track_metadata |-> JObj([track_name |-> JStr(U32ToString(i))])])

ListenArrays == {JArr([i \in 1..n |-> ListenJson(i)]) : n \in 0..MaxEntries}

(***************************************************************************)
(* The detail lookups: what fetch_lastfm_track, fetch_lastfm_album and     *)
(* fetch_lastfm_artist make of a decoded body.  The top-level object is a  *)
(* serde_json::Map; map[key] on a Map panics where the key is missing,     *)
(* while value[key] on a Value gives Null and map.get(key) gives None.     *)
(***************************************************************************)
\* the message of the failed detail lookup
NotFound(c) ==
    CASE c = "track" -> "Track not found."
      [] c = "album" -> "Album not found."
      [] c = "artist" -> "Artist not found."

\* the lookup did not return: its thread of control unwound in a panic
Panicked == [ok |-> FALSE, panicked |-> TRUE]

IsPanic(r) == ~r.ok /\ "panicked" \in DOMAIN r

\* the keys each lookup reads with map[key]
MapIndexed(c) ==
    CASE c = "track" -> {"name", "artist", "listeners", "playcount", "duration", "toptags"}
      [] c = "album" -> {"name", "artist", "listeners", "playcount", "tags"}
      [] c = "artist" -> {"name", "stats", "tags"}

\* .as_array().into_iter().flatten().map(|x| x["name"]...): the names of the tags
TagNames(value) ==
    [i \in 1..Len(ArrayItems(value)) |->
        StrOrDefault(as_str(Index(ArrayItems(value)[i], "name")))]

\* the userplaycount read through get: 0 where the key is missing
UserPlaycount(value) ==
    IF Get(value, "userplaycount").some
    THEN StrCount(Get(value, "userplaycount").v)
    ELSE 0

fetch_lastfm_track(json_value) ==
    LET track_json == Index(json_value, "track")
        album_obj == Get(track_json, "album")
        x == IF album_obj.some
             THEN StrOrDefault(as_str(Index(album_obj.v, "title")))
             ELSE <<>>
        tag == Get(Index(track_json, "toptags"), "tag")
    IN  IF track_json.t # "obj" THEN Err(NotFound("track"))
        ELSE IF ~(MapIndexed("track") \subseteq DOMAIN track_json.m) THEN Panicked
        ELSE Ok([name |-> StrOrDefault(as_str(Index(track_json, "name"))),
                 album |-> IF x # <<>> THEN Some(x) ELSE None,
                 artist |-> StrOrDefault(as_str(Index(Index(track_json, "artist"), "name"))),
                 listeners |-> StrCount(Index(track_json, "listeners")),
                 playcount |-> StrCount(Index(track_json, "playcount")),
                 user_playcount |-> UserPlaycount(track_json),
                 user_loved |-> /\ Get(track_json, "userloved").some
                                /\ StrOrDefault(as_str(Get(track_json, "userloved").v)) = <<"1">>,
                 duration |-> StrCount(Index(track_json, "duration")),
                 album_art_url |-> None,
                 date |-> None,
                 now_playing |-> FALSE,
                 tags |-> IF tag.some
                          THEN Some(SelectSeq(TagNames(tag.v), LAMBDA n : n # <<>>))
                          ELSE None])

fetch_lastfm_album(json_value) ==
    LET album_json == Index(json_value, "album")
    IN  IF album_json.t # "obj" THEN Err(NotFound("album"))
        ELSE IF ~(MapIndexed("album") \subseteq DOMAIN album_json.m) THEN Panicked
        ELSE Ok([name |-> StrOrDefault(as_str(Index(album_json, "name"))),
                 artist |-> StrOrDefault(as_str(Index(album_json, "artist"))),
                 listeners |-> StrCount(Index(album_json, "listeners")),
                 playcount |-> StrCount(Index(album_json, "playcount")),
                 user_playcount |-> UserPlaycount(album_json),
                 album_art_url |-> None,
                 tags |-> Some(TagNames(Index(album_json, "tags")))])

fetch_lastfm_artist(json_value) ==
    LET artist_json == Index(json_value, "artist")
        stats == Index(artist_json, "stats")
    IN  IF artist_json.t # "obj" THEN Err(NotFound("artist"))
        ELSE IF ~(MapIndexed("artist") \subseteq DOMAIN artist_json.m) THEN Panicked
        ELSE Ok([name |-> StrOrDefault(as_str(Index(artist_json, "name"))),
                 listeners |-> StrCount(Index(stats, "listeners")),
                 playcount |-> StrCount(Index(stats, "playcount")),
                 user_playcount |-> UserPlaycount(stats),
                 tags |-> Some(TagNames(Index(artist_json, "tags")))])

\* the lookup of the call c
Lookup(c, json_value) ==
    CASE c = "track" -> fetch_lastfm_track(json_value)
      [] c = "album" -> fetch_lastfm_album(json_value)
      [] c = "artist" -> fetch_lastfm_artist(json_value)

\* a provider's counts are JSON strings
Listeners == JStr(<<"1", "5", "0", "0">>)

Playcount == JStr(<<"4", "2">>)

UserPlays == JStr(<<"7">>)

Millis == JStr(<<"2", "1", "5", "0", "0", "0">>)

TagArray == JArr(<<JObj([name |-> JStr(NameA)]), JObj([name |-> JStr(<<>>)])>>)

\* the fields of a complete track, album or artist object
DetailFields(c) ==
    CASE c = "track" ->
            [name |-> JStr(NameA), artist |-> JObj([name |-> JStr(NameB)]),
             listeners |-> Listeners, playcount |-> Playcount, duration |-> Millis,
             userplaycount |-> UserPlays, toptags |-> JObj([tag |-> TagArray])]
      [] c = "album" ->
            [name |-> JStr(NameA), artist |-> JStr(NameB), listeners |-> Listeners,
             playcount |-> Playcount, userplaycount |-> UserPlays, tags |-> TagArray]
      [] c = "artist" ->
            [name |-> JStr(NameB), tags |-> TagArray,
             stats |-> JObj([listeners |-> Listeners, playcount |-> Playcount,
                             userplaycount |-> UserPlays])]

\* a 2xx detail body whose object lacks the fields left_out
DetailBody(c, left_out) ==
    JObj([k \in {c} |->
            JObj([f \in DOMAIN DetailFields(c) \ left_out |-> DetailFields(c)[f]])])


LastfmTrackJsons ==
    {JObj([name |-> JStr(NameA)]),
     JObj([k \in {"name", "@attr"} |->
            IF k = "name" THEN JStr(NameB)
            ELSE JObj([nowplaying |-> JStr(<<"t", "r", "u", "e">>)])])}

\* the text of a provider's error object, kept whole: it is only passed on
API_ERROR_TEXT == "Invalid parameters"

\* the error bodies of a Lastfm-style provider: a text object, or a code and a message
LastfmErrorJsons ==
    {JObj([error |-> TextObj(API_ERROR_TEXT)]),
     JObj([error |-> JNum(6), message |-> JStr(API_ERROR_TEXT)])}

\* the bytes of an album art
ImageBytes == [t |-> "bytes"]

\* the JSON bodies (for an album art, the image) a provider may send for a call
JsonBodies(c, a) ==
    IF c = "recent"
    THEN IF a = "Listenbrainz"
         THEN {Nested("payload", "listens", v) : v \in ListenArrays \cup {JNull}}
         ELSE {Nested("recenttracks", "track", v) : v \in Arrays(LastfmTrackJsons)}
              \cup LastfmErrorJsons
    ELSE IF c = "art" THEN {ImageBytes}
    ELSE {DetailBody(c, {}), JObj([error |-> JNum(6)])}

\* the cache-control directives a provider may send with a 200
ProviderCC == {{}, {"no-store"}, {"must-revalidate"}}

\* what may come back from the network: a response, or no response at all
Answers(c, a) ==
    {Ok(Response(200, cc, b)) : cc \in ProviderCC, b \in JsonBodies(c, a)}
    \cup {Ok(Response(200, {}, NotJson))}
    \cup {Ok(Response(code, {}, NotJson)) : code \in {403, 404, 500, 599}}
    \cup {Err(TRANSPORT_ERROR)}

(***************************************************************************)
(* One user's calls through CLIENT, one after the other.                   *)
(***************************************************************************)
Pending == Err("pending")

InitNet ==
    /\ call \in {"recent", "track", "album", "artist", "art"}
    /\ provider \in IF call = "recent" THEN ApiType ELSE {"Lastfm"}
    /\ prefer_cached = FALSE
    /\ actual_limit = 0
    /\ npc = "idle"
    /\ sent = <<>>
    /\ status = 0
    /\ response = Pending
    /\ all_tracks = <<>>
    /\ ret = Pending
    /\ cache = [u \in Urls(call, provider) |-> None]
    /\ answered = [u \in Urls(call, provider) |-> -1]
    /\ ParseIdle
    /\ AdapterIdle
    /\ ProfileIdle
    /\ InfosIdle
    /\ AnalIdle
    /\ BotIdle
    /\ SliceIdle

\* CLIENT.get(url).header("cache-control", ..).send(), down to the cache layer:
\* answered from the store, or put on the wire
ClientSend(before, url, headers) ==
    LET cached == ClientOf(call) = "CLIENT"
        seen == IF cached THEN ForceCacheRequest(headers) ELSE headers
        hit == cached /\ cache[url].some /\ Satisfies(cache[url].v, Directives(seen))
    IN  /\ sent' = Append(before, [url |-> url, headers |-> headers,
                                   cache_control |-> seen, outbound |-> ~hit])
        /\ status' = 0
        /\ IF hit
           THEN /\ npc' = "got"
                /\ response' = Outward(headers, Ok(Cached(cache[url].v)))
           ELSE /\ npc' = "await"
                /\ response' = Pending


\* fetch_recent_tracks' early return after the playing-now probe
ProbeSufficesNever(tracks, lim) == FALSE

ProbeSuffices(tracks, lim) == tracks # <<>> /\ lim = 1

\* a call begins: its parameters, and its first request
StartCall ==
    /\ npc \in {"idle", "done"}
    /\ \E prefer \in IF call = "recent" THEN BOOLEAN ELSE {FALSE} :
       \E lim \in IF call = "recent" THEN {1, 4} ELSE {0} :
        /\ prefer_cached' = prefer
        /\ actual_limit' = lim
        /\ ClientSend(<<>>, FirstUrl(call, provider), CallHeaders(call, prefer))
    /\ all_tracks' = <<>>
    /\ ret' = Pending
    /\ UNCHANGED <<call, provider, cache, answered>>
    /\ UNCHANGED parseVars
    /\ UNCHANGED adapterVars
    /\ UNCHANGED profileVars
    /\ UNCHANGED infosVars
    /\ UNCHANGED analVars
    /\ UNCHANGED botVars
    /\ UNCHANGED sliceVars

\* the network answers the request on the wire, or fails; the cache layer and
\* the two middlewares handle what came back.  With a stored response at hand
\* the cache layer revalidates: it may give the stored response in place of an
\* answer other than 200, and may store a 200 whatever its headers.
NetRespond ==
    /\ npc = "await"
    /\ \E a \in Answers(call, provider), fallback \in BOOLEAN, keep \in BOOLEAN :
        LET req == sent[Len(sent)]
            e == cache[req.url]
            is200 == a.ok /\ a.v.status = 200
            stored == ClientOf(call) = "CLIENT" /\ is200 /\ (Storable(a.v) \/ keep)
            inward == IF fallback THEN Ok(Cached(e.v)) ELSE a
        IN  /\ fallback => (e.some /\ ~is200)
            /\ keep => (e.some /\ is200 /\ ~Storable(a.v))
            /\ cache' = IF stored THEN [cache EXCEPT ![req.url] = Entry(a.v)] ELSE cache
            /\ status' = IF a.ok THEN a.v.status ELSE 0
            /\ response' = OutwardOf(ClientOf(call), req.headers, inward)
            /\ answered' = IF call = "recent" /\ prefer_cached /\ is200
                           THEN [answered EXCEPT ![req.url] = 0]
                           ELSE answered
    /\ npc' = "got"
    /\ UNCHANGED <<call, provider, prefer_cached, actual_limit, sent, all_tracks, ret>>
    /\ UNCHANGED parseVars
    /\ UNCHANGED adapterVars
    /\ UNCHANGED profileVars
    /\ UNCHANGED infosVars
    /\ UNCHANGED analVars
    /\ UNCHANGED botVars
    /\ UNCHANGED sliceVars

\* the text of a Lastfm-style error object: json["error"].as_object().map(..)
ErrorText(json_value) ==
    LET e == Index(json_value, "error")
        text == as_str(Index(e, "#text"))
    IN  IF e.t = "obj" THEN Some(IF text.some THEN text.v ELSE "") ELSE None

\* all_tracks.extend(tracks)
ExtendInFront(list, more) == more \o list

Extend(list, more) == list \o more

\* what a call makes of the JSON (fetch_album_arts: of the bytes) of its only
\* or last response
Outcome(c, a, before, json_value) ==
    IF c = "recent"
    THEN IF a = "Listenbrainz"
         THEN Ok(Extend(before, parse_listenbrainz_tracks_np(
                                Index(Index(json_value, "payload"), "listens"), FALSE)))
         ELSE IF ErrorText(json_value).some /\ ErrorText(json_value).v # ""
              THEN Err(ErrorText(json_value).v)
              ELSE Ok(parse_lastfm_tracks(Index(Index(json_value, "recenttracks"), "track")))
    ELSE IF c = "art" THEN Ok(json_value)
    ELSE Lookup(c, json_value)

\* the call goes on after send().await: the ? operators, json() (which uses
\* the response up), and then either the next request or the return
Continue ==
    /\ npc = "got"
    /\ LET parsed == IF ~response.ok THEN response
                     ELSE IF call = "art" THEN Ok(response.v.body)
                     ELSE ResponseJson(response.v)
           probe == parse_listenbrainz_tracks_np(
                        Index(Index(parsed.v, "payload"), "listens"), TRUE)
       IN  IF ~parsed.ok
           THEN /\ ret' = Err(parsed.err)
                /\ npc' = "done"
                /\ response' = Pending
                /\ UNCHANGED <<sent, status, all_tracks>>
           ELSE IF call = "recent" /\ provider = "Listenbrainz" /\ Len(sent) = 1
           THEN /\ all_tracks' = probe
                /\ IF ProbeSuffices(probe, actual_limit)
                   THEN /\ ret' = Ok(probe)
                        /\ npc' = "done"
                        /\ response' = Pending
                        /\ UNCHANGED <<sent, status>>
                   ELSE /\ ClientSend(sent, URL_LISTENS, CallHeaders(call, prefer_cached))
                        /\ UNCHANGED ret
           ELSE /\ ret' = Outcome(call, provider, all_tracks, parsed.v)
                /\ all_tracks' = IF ret'.ok /\ call = "recent" THEN ret'.v ELSE all_tracks
                /\ npc' = "done"
                /\ response' = Pending
                /\ UNCHANGED <<sent, status>>
    /\ UNCHANGED <<call, provider, prefer_cached, actual_limit, cache, answered>>
    /\ UNCHANGED parseVars
    /\ UNCHANGED adapterVars
    /\ UNCHANGED profileVars
    /\ UNCHANGED infosVars
    /\ UNCHANGED analVars
    /\ UNCHANGED botVars
    /\ UNCHANGED sliceVars

\* time passes between calls (a request is over within the 25 s timeout);
\* stored responses older than the time to live are gone
Tick ==
    /\ npc \in {"idle", "done"}
    /\ cache' = Later(cache, TICK)
    /\ answered' = [u \in DOMAIN answered |->
                        IF answered[u] = -1 \/ answered[u] + TICK >= CACHE_TTL
                        THEN -1 ELSE answered[u] + TICK]
    /\ UNCHANGED <<call, provider, prefer_cached, actual_limit, npc, sent, status,
                   response, all_tracks, ret>>
    /\ UNCHANGED parseVars
    /\ UNCHANGED adapterVars
    /\ UNCHANGED profileVars
    /\ UNCHANGED infosVars
    /\ UNCHANGED analVars
    /\ UNCHANGED botVars
    /\ UNCHANGED sliceVars

NextNet == StartCall \/ NetRespond \/ Continue \/ Tick

SpecNet == InitNet /\ [][NextNet]_vars

(***************************************************************************)
(* fetch_user_info for Listenbrainz: four requests through CLIENT.         *)
(***************************************************************************)
LISTENBRAINZ_ROOT == "https://api.listenbrainz.org/1/"

\* the URL of the k-th request
ProfileUrl(k) ==
    CASE k = 1 -> <<LISTENBRAINZ_ROOT, "user/">> \o USERNAME \o <<"/listen-count">>
      [] k = 2 -> <<LISTENBRAINZ_ROOT, "stats/user/">> \o USERNAME \o <<"/artists">>
      [] k = 3 -> <<LISTENBRAINZ_ROOT, "stats/user/">> \o USERNAME \o <<"/releases">>
      [] k = 4 -> <<LISTENBRAINZ_ROOT, "stats/user/">> \o USERNAME \o <<"/recordings">>

\* the payload key the k-th response is read at
CountKey(k) ==
    CASE k = 1 -> "count"
      [] k = 2 -> "total_artist_count"
      [] k = 3 -> "total_release_count"
      [] k = 4 -> "total_recording_count"

\* what send().await and json().await may give for the k-th request
ProfileAnswers(k) ==
    {Ok(Nested("payload", CountKey(k), JNum(n))) : n \in {k, k + 4}}
    \cup {Ok(JObj(<<>>))}
    \cup {Err(USER_NOT_FOUND), Err(TRANSPORT_ERROR), Err(DECODE_ERROR)}

\* json["payload"][key].as_u64().unwrap_or_default() of the k-th answer
ProfileCount(as, k) ==
    IF as[k].ok
    THEN U64OrDefault(as_u64(Index(Index(as[k].v, "payload"), CountKey(k))))
    ELSE 0

\* the ScrobbleUser built of four answers
ProfileUser(as) ==
    ScrobbleUser(USERNAME, ProfileCount(as, 1), ProfileCount(as, 2),
                 ProfileCount(as, 3), ProfileCount(as, 4), None, None)

\* every send() is awaited where it is made: the next request waits for the
\* answer to the one before
MayIssueAhead(i, a) == TRUE

MayIssue(i, a) == i = a

\* the ? operators on send().await and json().await
FailsNever(r) == FALSE

Fails(r) == ~r.ok

InitProfile ==
    /\ upc = "issue"
    /\ issued = <<>>
    /\ answers = <<>>
    /\ user = Pending
    /\ ParseIdle
    /\ AdapterIdle
    /\ NetIdle
    /\ InfosIdle
    /\ AnalIdle
    /\ BotIdle
    /\ SliceIdle

\* CLIENT.get(&url).send()
ProfileSend ==
    /\ upc # "done"
    /\ Len(issued) < 4
    /\ MayIssue(Len(issued), Len(answers))
    /\ issued' = Append(issued, ProfileUrl(Len(issued) + 1))
    /\ upc' = "wait"
    /\ UNCHANGED <<answers, user>>
    /\ UNCHANGED parseVars
    /\ UNCHANGED adapterVars
    /\ UNCHANGED netVars
    /\ UNCHANGED infosVars
    /\ UNCHANGED analVars
    /\ UNCHANGED botVars
    /\ UNCHANGED sliceVars

\* .await?, json().await?, the count read; after the fourth, the return
ProfileReceive ==
    /\ upc = "wait"
    /\ Len(answers) < Len(issued)
    /\ \E r \in ProfileAnswers(Len(answers) + 1) :
        /\ answers' = Append(answers, r)
        /\ IF Fails(r)
           THEN user' = Err(r.err) /\ upc' = "done"
           ELSE IF Len(answers') = 4
           THEN user' = Ok(ProfileUser(answers')) /\ upc' = "done"
           ELSE /\ UNCHANGED user
                /\ upc' = IF Len(answers') < Len(issued) THEN "wait" ELSE "issue"
    /\ UNCHANGED issued
    /\ UNCHANGED parseVars
    /\ UNCHANGED adapterVars
    /\ UNCHANGED netVars
    /\ UNCHANGED infosVars
    /\ UNCHANGED analVars
    /\ UNCHANGED botVars
    /\ UNCHANGED sliceVars

NextProfile == ProfileSend \/ ProfileReceive

SpecProfile == InitProfile /\ [][NextProfile]_vars

(***************************************************************************)
(* fetch_lastfm_infos: the artist detail lookup and the track detail       *)
(* lookup run as two spawned tasks; the function awaits the artist task,   *)
(* then the track task, and puts the two texts together.  A text is a      *)
(* sequence of chunks: the characters of what was formatted in, and the    *)
(* fixed pieces of the format strings, each written as one chunk.          *)
(***************************************************************************)
Tasks == {"artist", "track"}

\* the JoinError a panicked task's handle gives, taken out by ?
JOIN_ERROR == "task panicked"

TRACK_FAILED == <<"Failed to fetch track info">>

Pad(n, width) ==
    [i \in 1..(width - Len(U32ToString(n))) |-> "0"] \o U32ToString(n)

\* num_format's to_formatted_string(&Locale::en): groups of three digits, commas between
RECURSIVE to_formatted_string(_)
to_formatted_string(n) ==
    IF n < 1000 THEN U32ToString(n)
    ELSE to_formatted_string(n \div 1000) \o <<",">> \o Pad(n % 1000, 3)

human_readable_duration(ms) ==
    LET seconds == ms \div 1000
    IN  U32ToString(seconds \div 60) \o <<":">> \o Pad(seconds % 60, 2)

Counts(e) ==
    to_formatted_string(e.user_playcount) \o <<" plays\n">>
        \o to_formatted_string(e.listeners) \o <<" listeners\n">>
        \o to_formatted_string(e.playcount) \o <<" scrobbles">>

\* the artist text: the formatted artist, or the empty default of a failed lookup
ArtistText(r) ==
    IF r.ok THEN <<"artist ">> \o r.v.name \o <<":\n">> \o Counts(r.v) ELSE <<>>

\* the track text: the formatted track, or the fixed text of a failed lookup
TrackText(r) ==
    IF r.ok
    THEN <<"track ">> \o r.v.name \o <<" (">>
             \o (IF r.v.duration > 0 THEN human_readable_duration(r.v.duration)
                 ELSE <<"??:??">>)
             \o <<"):\n">> \o Counts(r.v)
    ELSE TRACK_FAILED

\* format!("{track}\n\n{artist}")
InfoText(track, artist) == track \o <<"\n\n">> \o artist

\* what a task's request and json() may give: a failure of either, or a body:
\* complete, lacking a key read with get, lacking a key read with map[key],
\* holding a count that is no string, or without the object
TaskAnswers(t) ==
    {Err(TRANSPORT_ERROR), Err(USER_NOT_FOUND), Err(DECODE_ERROR)}
        \cup {Ok(DetailBody(t, {})), Ok(DetailBody(t, {"userplaycount"})),
              Ok(JObj([error |-> JNum(6)]))}
        \cup (IF t = "track"
              THEN {Ok(DetailBody(t, {"duration"})),
                    Ok(JObj([track |-> JObj([f \in DOMAIN DetailFields(t) |->
                                IF f = "duration" THEN JNull ELSE DetailFields(t)[f]])]))}
              ELSE {Ok(DetailBody(t, {"stats"}))})

\* where fetch_lastfm_infos awaits the first of its tasks
AwaitsAtOneSpawned(pc) == pc \in {"spawned_artist", "spawned_both"}

Awaits(pc) == pc = "spawned_both"

InitInfos ==
    /\ ipc = "start"
    /\ tasks = [t \in Tasks |-> "unborn"]
    /\ outcomes = [t \in Tasks |-> Pending]
    /\ artist_part = None
    /\ info_text = Pending
    /\ ParseIdle
    /\ AdapterIdle
    /\ NetIdle
    /\ ProfileIdle
    /\ AnalIdle
    /\ BotIdle
    /\ SliceIdle

\* task::spawn(fetch_lastfm_artist(..))
SpawnArtist ==
    /\ ipc = "start"
    /\ tasks' = [tasks EXCEPT !["artist"] = "spawned"]
    /\ ipc' = "spawned_artist"
    /\ UNCHANGED <<outcomes, artist_part, info_text>>
    /\ UNCHANGED parseVars
    /\ UNCHANGED adapterVars
    /\ UNCHANGED netVars
    /\ UNCHANGED profileVars
    /\ UNCHANGED analVars
    /\ UNCHANGED botVars
    /\ UNCHANGED sliceVars

\* task::spawn(fetch_lastfm_track(..))
SpawnTrack ==
    /\ ipc = "spawned_artist"
    /\ tasks' = [tasks EXCEPT !["track"] = "spawned"]
    /\ ipc' = "spawned_both"
    /\ UNCHANGED <<outcomes, artist_part, info_text>>
    /\ UNCHANGED parseVars
    /\ UNCHANGED adapterVars
    /\ UNCHANGED netVars
    /\ UNCHANGED profileVars
    /\ UNCHANGED analVars
    /\ UNCHANGED botVars
    /\ UNCHANGED sliceVars

\* a spawned task runs up to its send().await: its request is on its way
TaskSend(t) ==
    /\ tasks[t] = "spawned"
    /\ tasks' = [tasks EXCEPT ![t] = "in_flight"]
    /\ UNCHANGED <<ipc, outcomes, artist_part, info_text>>
    /\ UNCHANGED parseVars
    /\ UNCHANGED adapterVars
    /\ UNCHANGED netVars
    /\ UNCHANGED profileVars
    /\ UNCHANGED analVars
    /\ UNCHANGED botVars
    /\ UNCHANGED sliceVars

\* the task's request is answered and the task runs to its end
TaskFinish(t) ==
    /\ tasks[t] = "in_flight"
    /\ \E answer \in TaskAnswers(t) :
        outcomes' = [outcomes EXCEPT ![t] =
                        IF answer.ok THEN Lookup(t, answer.v) ELSE answer]
    /\ tasks' = [tasks EXCEPT ![t] = "finished"]
    /\ UNCHANGED <<ipc, artist_part, info_text>>
    /\ UNCHANGED parseVars
    /\ UNCHANGED adapterVars
    /\ UNCHANGED netVars
    /\ UNCHANGED profileVars
    /\ UNCHANGED analVars
    /\ UNCHANGED botVars
    /\ UNCHANGED sliceVars

\* artist_req.await?.map(..).unwrap_or_default()
JoinArtist ==
    /\ Awaits(ipc)
    /\ tasks["artist"] = "finished"
    /\ IF IsPanic(outcomes["artist"])
       THEN /\ info_text' = Err(JOIN_ERROR)
            /\ ipc' = "done"
            /\ UNCHANGED artist_part
       ELSE /\ artist_part' = Some(ArtistText(outcomes["artist"]))
            /\ ipc' = "joined_artist"
            /\ UNCHANGED info_text
    /\ UNCHANGED <<tasks, outcomes>>
    /\ UNCHANGED parseVars
    /\ UNCHANGED adapterVars
    /\ UNCHANGED netVars
    /\ UNCHANGED profileVars
    /\ UNCHANGED analVars
    /\ UNCHANGED botVars
    /\ UNCHANGED sliceVars

\* track_req.await?.map(..).unwrap_or_else(..), the format! and the return
JoinTrack ==
    /\ ipc = "joined_artist"
    /\ tasks["track"] = "finished"
    /\ info_text' = IF IsPanic(outcomes["track"])
                    THEN Err(JOIN_ERROR)
                    ELSE Ok(InfoText(TrackText(outcomes["track"]), artist_part.v))
    /\ ipc' = "done"
    /\ UNCHANGED <<tasks, outcomes, artist_part>>
    /\ UNCHANGED parseVars
    /\ UNCHANGED adapterVars
    /\ UNCHANGED netVars
    /\ UNCHANGED profileVars
    /\ UNCHANGED analVars
    /\ UNCHANGED botVars
    /\ UNCHANGED sliceVars

NextInfos ==
    \/ SpawnArtist
    \/ SpawnTrack
    \/ \E t \in Tasks : TaskSend(t)
    \/ \E t \in Tasks : TaskFinish(t)
    \/ JoinArtist
    \/ JoinTrack

SpecInfos == InitInfos /\ [][NextInfos]_vars

(***************************************************************************)
(* The analytics buffer (anal.rs).  Two update handlers run add_event at   *)
(* the same time, on the threads of the runtime: every taking of the       *)
(* buffer's lock is a step of its own.  Events are numbered as pushed; the *)
(* buffer starts as the add_event calls before have left it, at or one     *)
(* below the length that triggers an upload.                               *)
(***************************************************************************)
MAX_EVENTS_TO_TRIGGER_SEND == 50

\* how many events the handlers push
MaxAdds == 3

Handlers == {1, 2}

Range(s) == {s[i] : i \in 1..Len(s)}

\* what CLIENT_NOCACHE's inner client may give for the batch upload
UploadAnswers ==
    {Ok(Response(code, {}, JNull)) : code \in {200, 204, 400, 500}}
        \cup {Err(TRANSPORT_ERROR)}

InitAnal ==
    /\ \E n \in {MAX_EVENTS_TO_TRIGGER_SEND - 1, MAX_EVENTS_TO_TRIGGER_SEND} :
        /\ events_buffer = [i \in 1..n |-> i]
        /\ pushed = n
    /\ epc = [h \in Handlers |-> "idle"]
    /\ upload_body = [h \in Handlers |-> <<>>]
    /\ upload_status = [h \in Handlers |-> 0]
    /\ uploaded = {}
    /\ add_result = [h \in Handlers |-> Pending]
    /\ ParseIdle
    /\ AdapterIdle
    /\ NetIdle
    /\ ProfileIdle
    /\ InfosIdle
    /\ BotIdle
    /\ SliceIdle

\* add_event: the event is pushed under the lock
AddEventPush(h) ==
    /\ epc[h] \in {"idle", "done"}
    /\ pushed < MAX_EVENTS_TO_TRIGGER_SEND + MaxAdds
    /\ pushed' = pushed + 1
    /\ events_buffer' = Append(events_buffer, pushed + 1)
    /\ epc' = [epc EXCEPT ![h] = "pushed"]
    /\ add_result' = [add_result EXCEPT ![h] = Pending]
    /\ UNCHANGED <<upload_body, upload_status, uploaded>>
    /\ UNCHANGED parseVars
    /\ UNCHANGED adapterVars
    /\ UNCHANGED netVars
    /\ UNCHANGED profileVars
    /\ UNCHANGED infosVars
    /\ UNCHANGED botVars
    /\ UNCHANGED sliceVars

\* add_event: the length is read under the lock, taken anew
AddEventCheck(h) ==
    /\ epc[h] = "pushed"
    /\ IF Len(events_buffer) > MAX_EVENTS_TO_TRIGGER_SEND
       THEN /\ epc' = [epc EXCEPT ![h] = "send"]
            /\ UNCHANGED add_result
       ELSE /\ epc' = [epc EXCEPT ![h] = "done"]
            /\ add_result' = [add_result EXCEPT ![h] = Ok(<<>>)]
    /\ UNCHANGED <<events_buffer, pushed, upload_body, upload_status, uploaded>>
    /\ UNCHANGED parseVars
    /\ UNCHANGED adapterVars
    /\ UNCHANGED netVars
    /\ UNCHANGED profileVars
    /\ UNCHANGED infosVars
    /\ UNCHANGED botVars
    /\ UNCHANGED sliceVars

\* send: the buffer is cloned into the UploadBody, and _send posts it
Send(h) ==
    /\ epc[h] = "send"
    /\ upload_body' = [upload_body EXCEPT ![h] = events_buffer]
    /\ epc' = [epc EXCEPT ![h] = "uploading"]
    /\ UNCHANGED <<events_buffer, pushed, upload_status, uploaded, add_result>>
    /\ UNCHANGED parseVars
    /\ UNCHANGED adapterVars
    /\ UNCHANGED netVars
    /\ UNCHANGED profileVars
    /\ UNCHANGED infosVars
    /\ UNCHANGED botVars
    /\ UNCHANGED sliceVars

\* _send: the upload is answered, or fails; Response200Middleware turns an
\* answer that is no 2xx into an error, and the ? operators pass an error up
\* to add_event's caller
UploadAnswer(h) ==
    /\ epc[h] = "uploading"
    /\ \E a \in UploadAnswers :
        /\ upload_status' = [upload_status EXCEPT ![h] = IF a.ok THEN a.v.status ELSE 0]
        /\ IF Response200(a).ok
           THEN /\ epc' = [epc EXCEPT ![h] = "uploaded"]
                /\ uploaded' = uploaded \cup Range(upload_body[h])
                /\ UNCHANGED add_result
           ELSE /\ epc' = [epc EXCEPT ![h] = "done"]
                /\ add_result' = [add_result EXCEPT ![h] = Response200(a)]
                /\ UNCHANGED uploaded
    /\ UNCHANGED <<events_buffer, pushed, upload_body>>
    /\ UNCHANGED parseVars
    /\ UNCHANGED adapterVars
    /\ UNCHANGED netVars
    /\ UNCHANGED profileVars
    /\ UNCHANGED infosVars
    /\ UNCHANGED botVars
    /\ UNCHANGED sliceVars

\* add_event: buffer.clear() under the lock, and Ok(())
Clear(h) ==
    /\ epc[h] = "uploaded"
    /\ events_buffer' = <<>>
    /\ epc' = [epc EXCEPT ![h] = "done"]
    /\ add_result' = [add_result EXCEPT ![h] = Ok(<<>>)]
    /\ UNCHANGED <<pushed, upload_body, upload_status, uploaded>>
    /\ UNCHANGED parseVars
    /\ UNCHANGED adapterVars
    /\ UNCHANGED netVars
    /\ UNCHANGED profileVars
    /\ UNCHANGED infosVars
    /\ UNCHANGED botVars
    /\ UNCHANGED sliceVars

NextAnal ==
    \/ \E h \in Handlers : AddEventPush(h)
    \/ \E h \in Handlers : AddEventCheck(h)
    \/ \E h \in Handlers : Send(h)
    \/ \E h \in Handlers : UploadAnswer(h)
    \/ \E h \in Handlers : Clear(h)

SpecAnal == InitAnal /\ [][NextAnal]_vars

(***************************************************************************)
(* callback_handler and set_command (main.rs) over the user store (db.rs). *)
(* One update is handled, on any state of the store.  Callback data is a   *)
(* sequence of chunks: the words the code compares whole, and single       *)
(* spaces.  What the handler does to the outside (answers, messages,       *)
(* edits, commands run, reads and writes of the store, the analytics       *)
(* event) is kept in order.                                                *)
(***************************************************************************)
UserIds == {1, 2}

\* the first token of callback data: the id allowed to click, 0 for everyone;
\* "x" stands for data that does not begin with a number
AllowedTexts == {<<"0">>, <<"1">>, <<"2">>, <<"x">>}

CallbackWords ==
    {"set", "status", "status_refresh", "info", "collage", "random", "topkek",
     "preferences", "loading", "unheard"}

\* the rest of callback data, and the argument of /set
BotArgs ==
    {<<>>, <<"user">>, <<"user", " ", "listenbrainz">>, <<"user", " ", "last.fm">>}

\* format!("{} {} {}", id, word, arg), and the two-token data without an argument
DataOf(allowed_text, word, a) ==
    allowed_text \o <<" ", word>> \o (IF a = <<>> THEN <<>> ELSE <<" ">> \o a)

\* the accounts a chat user may have linked
Accounts ==
    {None, Some([account_username |-> <<"old">>, api_type |-> "Lastfm"]),
     Some([account_username |-> <<"user">>, api_type |-> "Listenbrainz"])}

Updates ==
    [kind : {"callback"},
     data : {DataOf(t, w, a) : t \in AllowedTexts, w \in CallbackWords, a \in BotArgs},
     sender : UserIds,
     message : {"regular", "inline", "none"}]
    \cup [kind : {"message"}, data : BotArgs, sender : UserIds, message : {"regular"}]

Effect(kind, text) == [kind |-> kind, text |-> text]

\* bot.answer_callback_query(q.id).text(text)
Answer(text) == Effect("answer", text)

\* ApiType's FromStr (snake_case), and set_command's unwrap_or(ApiType::Lastfm)
ParseApiType(str) ==
    IF str = <<"listenbrainz">> THEN "Listenbrainz"
    ELSE IF str = <<"librefm">> THEN "Librefm"
    ELSE "Lastfm"

\* set_command's parameters for the update: from whom, with what argument
SetArg(u) == IF u.kind = "callback" THEN CallbackArg(u.data) ELSE u.data

SetUsername(u) == SplitN(SetArg(u), 2, " ")[1]

SetApiType(u) ==
    LET arg_splits == SplitN(SetArg(u), 2, " ")
    IN  ParseApiType(IF Len(arg_splits) >= 2 THEN arg_splits[2] ELSE <<>>)

\* callback_handler's allowed_user_id
AllowedUserId(u) == ParseUInt(SplitN(u.data, 3, " ")[1])

\* the click passes whoever clicked
AllowedAnyone(allowed_user_id, clicker) == TRUE

\* 0 means everyone is allowed to click
Allowed(allowed_user_id, clicker) == allowed_user_id = 0 \/ allowed_user_id = clicker

\* set_command links the account whatever the probe gave
StoresAlways(recent_tracks) == TRUE

\* set_command links the account when the probe succeeded
Stores(recent_tracks) == recent_tracks.ok

\* what callback_handler does for a registered user's click, by the word of
\* the data: the effects, and whether the handler goes on to track()
Branches(u, account) ==
    LET word == CallbackWord(u.data)
        arg_splits == Split(CallbackArg(u.data), " ")
        run(name) == {[done |-> <<Effect("command", name)>>, tracked |-> ok] : ok \in BOOLEAN}
        chooser(name) == {[done |-> <<Effect("edit", name)>>, tracked |-> ok] : ok \in BOOLEAN}
    IN  CASE word = "status" -> run("status")
          [] word = "status_refresh" ->
                {[done |-> <<Effect("command", "status")>>, tracked |-> TRUE],
                 [done |-> <<Effect("command", "status"), Answer("MESSAGE_UNMODIFIED")>>,
                  tracked |-> TRUE]}
          [] word = "info" ->
                IF u.message # "regular"
                THEN {[done |-> <<Answer("NO")>>, tracked |-> FALSE]}
                ELSE IF account.api_type = "Lastfm"
                THEN {[done |-> <<Answer("NOT_FOUND")>>, tracked |-> FALSE],
                      [done |-> <<Effect("command", "fetch_lastfm_infos"), Answer("infos")>>,
                       tracked |-> TRUE]}
                ELSE {[done |-> <<Answer("NO")>>, tracked |-> TRUE]}
          [] word = "collage" ->
                IF Len(arg_splits) = 1 THEN chooser("size_chooser")
                ELSE {[done |-> <<Effect("edit", "loading")>>, tracked |-> FALSE],
                      [done |-> <<Effect("edit", "loading"), Effect("command", "collage")>>,
                       tracked |-> TRUE]}
          [] word = "random" ->
                IF Len(arg_splits) # 2 THEN chooser("period_chooser") ELSE run("random")
          [] word = "topkek" ->
                IF Len(arg_splits) # 2 THEN chooser("period_chooser") ELSE run("topkek")
          [] word = "preferences" -> run("preferences")
          [] word = "loading" -> {[done |-> <<Answer("LOADING")>>, tracked |-> TRUE]}
          [] OTHER -> {[done |-> <<Answer("NO")>>, tracked |-> TRUE]}

\* what fetch_recent_tracks(username, &api_type, false, 1) may give
ProbeResults == {Ok(<<>>), Ok(<<Track(NameA, FALSE)>>), Err(USER_NOT_FOUND), Err(ERR_MSG)}

NoProbe == [username |-> <<>>, api_type |-> "none", prefer_cached |-> FALSE,
            actual_limit |-> 0, recent_tracks |-> Pending]

InitBot ==
    /\ update \in Updates
    /\ bpc = "received"
    /\ user_store \in [UserIds -> Accounts]
    /\ effects = <<>>
    /\ set_probe = NoProbe
    /\ ParseIdle
    /\ AdapterIdle
    /\ NetIdle
    /\ ProfileIdle
    /\ InfosIdle
    /\ AnalIdle
    /\ SliceIdle

\* callback_handler, to the check of who may click: the id is parsed (an
\* error returns), a message too old is answered, a click of someone else
\* is refused
Gate ==
    /\ bpc = "received"
    /\ update.kind = "callback"
    /\ IF AllowedUserId(update) = ParseErr
       THEN bpc' = "done" /\ UNCHANGED effects
       ELSE IF update.message = "none"
       THEN bpc' = "done" /\ effects' = <<Answer("MESSAGE_TOO_OLD")>>
       ELSE IF ~Allowed(AllowedUserId(update), update.sender)
       THEN bpc' = "done" /\ effects' = <<Answer("NO")>>
       ELSE bpc' = "admitted" /\ UNCHANGED effects
    /\ UNCHANGED <<update, user_store, set_probe>>
    /\ UNCHANGED parseVars
    /\ UNCHANGED adapterVars
    /\ UNCHANGED netVars
    /\ UNCHANGED profileVars
    /\ UNCHANGED infosVars
    /\ UNCHANGED analVars
    /\ UNCHANGED sliceVars

\* message_handler, Command::Set
MessageSet ==
    /\ bpc = "received"
    /\ update.kind = "message"
    /\ bpc' = "set"
    /\ UNCHANGED <<update, user_store, effects, set_probe>>
    /\ UNCHANGED parseVars
    /\ UNCHANGED adapterVars
    /\ UNCHANGED netVars
    /\ UNCHANGED profileVars
    /\ UNCHANGED infosVars
    /\ UNCHANGED analVars
    /\ UNCHANGED sliceVars

\* callback_handler after the check: "set" on a regular message goes to
\* set_command; every other click needs the clicker's account, and then does
\* what its word says
Dispatch ==
    /\ bpc = "admitted"
    /\ IF CallbackWord(update.data) = "set" /\ update.message = "regular"
       THEN bpc' = "set" /\ UNCHANGED effects
       ELSE /\ bpc' = "done"
            /\ IF ~user_store[update.sender].some
               THEN effects' = <<Effect("db_read", ""), Answer("NOT_REGISTERED")>>
               ELSE \E b \in Branches(update, user_store[update.sender].v) :
                        effects' = <<Effect("db_read", "")>> \o b.done
                            \o (IF b.tracked
                                THEN <<Effect("track", CallbackWord(update.data))>>
                                ELSE <<>>)
    /\ UNCHANGED <<update, user_store, set_probe>>
    /\ UNCHANGED parseVars
    /\ UNCHANGED adapterVars
    /\ UNCHANGED netVars
    /\ UNCHANGED profileVars
    /\ UNCHANGED infosVars
    /\ UNCHANGED analVars
    /\ UNCHANGED sliceVars

\* set_command, to the probe: without an argument the usage text; with one,
\* fetch_recent_tracks(username, &api_type, false, 1).await
SetProbe ==
    /\ bpc = "set"
    /\ IF SetArg(update) = <<>>
       THEN /\ effects' = effects \o <<Effect("message", "SET_CLICK")>>
                              \o (IF update.kind = "message"
                                  THEN <<Effect("track", "set")>> ELSE <<>>)
            /\ bpc' = "done"
            /\ UNCHANGED set_probe
       ELSE /\ \E r \in ProbeResults :
                set_probe' = [username |-> SetUsername(update),
                              api_type |-> SetApiType(update),
                              prefer_cached |-> FALSE, actual_limit |-> 1,
                              recent_tracks |-> r]
            /\ effects' = effects \o <<Effect("command", "fetch_recent_tracks")>>
            /\ bpc' = "probed"
    /\ UNCHANGED <<update, user_store>>
    /\ UNCHANGED parseVars
    /\ UNCHANGED adapterVars
    /\ UNCHANGED netVars
    /\ UNCHANGED profileVars
    /\ UNCHANGED infosVars
    /\ UNCHANGED analVars
    /\ UNCHANGED sliceVars

\* set_command after the probe: on Ok the upsert (whose error returns) and the
\* text that the username is set; on Err the error text; then the message
SetStore ==
    /\ bpc = "probed"
    /\ LET after == IF update.kind = "message" THEN <<Effect("track", "set")>> ELSE <<>>
       IN  IF Stores(set_probe.recent_tracks)
           THEN \E upserted \in BOOLEAN :
                   IF upserted
                   THEN /\ user_store' =
                              [user_store EXCEPT ![update.sender] =
                                  Some([account_username |-> set_probe.username,
                                        api_type |-> set_probe.api_type])]
                        /\ effects' = effects \o <<Effect("db_write", ""),
                                                   Effect("message", "SET_OK")>> \o after
                   ELSE /\ UNCHANGED user_store
                        /\ effects' = effects \o <<Effect("db_write", "failed")>>
           ELSE /\ UNCHANGED user_store
                /\ effects' = effects \o <<Effect("message", "SET_FAILED")>> \o after
    /\ bpc' = "done"
    /\ UNCHANGED <<update, set_probe>>
    /\ UNCHANGED parseVars
    /\ UNCHANGED adapterVars
    /\ UNCHANGED netVars
    /\ UNCHANGED profileVars
    /\ UNCHANGED infosVars
    /\ UNCHANGED analVars
    /\ UNCHANGED sliceVars

NextBot == Gate \/ MessageSet \/ Dispatch \/ SetProbe \/ SetStore

SpecBot == InitBot /\ [][NextBot]_vars

(***************************************************************************)
(* slice_tg_string (utils.rs) and the "info" button that uses it           *)
(* (main.rs).  A character is known by name; what the code reads of it is  *)
(* its width in UTF-16 units and in UTF-8 bytes.                           *)
(***************************************************************************)
Chars == {"a", "grin"}

\* char::len_utf16
len_utf16(ch) == IF ch = "grin" THEN 2 ELSE 1

\* char::len_utf8
len_utf8(ch) == IF ch = "grin" THEN 4 ELSE 1

\* the byte index char_indices gives the k-th character of s (from 1); for
\* k = Len(s) + 1 the length of s in bytes
RECURSIVE ByteIndex(_, _)
ByteIndex(s, k) == IF k <= 1 THEN 0 ELSE ByteIndex(s, k - 1) + len_utf8(s[k - 1])

\* the length of s in UTF-16 units
RECURSIVE Utf16Len(_)
Utf16Len(s) == IF s = <<>> THEN 0 ELSE len_utf16(Head(s)) + Utf16Len(Tail(s))

\* the for loop of slice_tg_string from the k-th character on, st holding
\* utf16_len, start_byte and end_byte
RECURSIVE SliceLoop(_, _, _, _, _)
SliceLoop(s, k, start, end, st) ==
    IF k > Len(s) THEN st
    ELSE LET s1 == IF st.utf16_len = start
                   THEN [st EXCEPT !.start_byte = Some(ByteIndex(s, k))] ELSE st
         IN  IF s1.utf16_len = end
             THEN [s1 EXCEPT !.end_byte = Some(ByteIndex(s, k))]
             ELSE SliceLoop(s, k + 1, start, end,
                            [s1 EXCEPT !.utf16_len = @ + len_utf16(s[k])])

\* s[from_byte..to_byte]: the characters that start in that byte range
ByteSlice(s, from_byte, to_byte) ==
    SelectSeq([k \in 1..Len(s) |-> [ch |-> s[k], at |-> ByteIndex(s, k)]],
              LAMBDA c : from_byte <= c.at /\ c.at < to_byte)

slice_tg_string(s, start, end) ==
    LET st == SliceLoop(s, 1, start, end,
                        [utf16_len |-> 0, start_byte |-> None, end_byte |-> None])
    IN  IF ~st.start_byte.some \/ ~st.end_byte.some THEN None
        ELSE Some([k \in 1..Len(ByteSlice(s, st.start_byte.v, st.end_byte.v)) |->
                      ByteSlice(s, st.start_byte.v, st.end_byte.v)[k].ch])

NOT_FOUND == "Not found."

Texts == UNION {[1..n -> Chars] : n \in 0..MaxChars}

\* the entities Telegram may report on a text of n UTF-16 units, and some
\* that lie outside it
Entities(n) == [offset : 0..(n + 1), length : 0..(n + 1)]

InitSlice ==
    /\ msg_text \in Texts
    /\ ita \in Entities(Utf16Len(msg_text))
    /\ bol \in Entities(Utf16Len(msg_text))
    /\ spc = "start"
    /\ artist_slice = "none"
    /\ title_slice = "none"
    /\ info_answer = "none"
    /\ ParseIdle
    /\ AdapterIdle
    /\ NetIdle
    /\ ProfileIdle
    /\ InfosIdle
    /\ AnalIdle
    /\ BotIdle

\* let artist = slice_tg_string(msg_text.clone(), ita.offset, ita.length + ita.offset)
SliceArtist ==
    /\ spc = "start"
    /\ artist_slice' = slice_tg_string(msg_text, ita.offset, ita.length + ita.offset)
    /\ spc' = "artist"
    /\ UNCHANGED <<msg_text, ita, bol, title_slice, info_answer>>
    /\ UNCHANGED parseVars
    /\ UNCHANGED adapterVars
    /\ UNCHANGED netVars
    /\ UNCHANGED profileVars
    /\ UNCHANGED infosVars
    /\ UNCHANGED analVars
    /\ UNCHANGED botVars

\* let title = slice_tg_string(msg_text, bol.offset, bol.length + bol.offset)
SliceTitle ==
    /\ spc = "artist"
    /\ title_slice' = slice_tg_string(msg_text, bol.offset, bol.length + bol.offset)
    /\ spc' = "title"
    /\ UNCHANGED <<msg_text, ita, bol, artist_slice, info_answer>>
    /\ UNCHANGED parseVars
    /\ UNCHANGED adapterVars
    /\ UNCHANGED netVars
    /\ UNCHANGED profileVars
    /\ UNCHANGED infosVars
    /\ UNCHANGED analVars
    /\ UNCHANGED botVars

\* artist or title is None: the NOT_FOUND answer, and the handler returns
SliceNotFound ==
    /\ spc = "title"
    /\ ~artist_slice.some \/ ~title_slice.some
    /\ info_answer' = NOT_FOUND
    /\ spc' = "done"
    /\ UNCHANGED <<msg_text, ita, bol, artist_slice, title_slice>>
    /\ UNCHANGED parseVars
    /\ UNCHANGED adapterVars
    /\ UNCHANGED netVars
    /\ UNCHANGED profileVars
    /\ UNCHANGED infosVars
    /\ UNCHANGED analVars
    /\ UNCHANGED botVars

\* both are Some: fetch_lastfm_infos on them, its text or NOT_FOUND the answer
SliceInfos ==
    /\ spc = "title"
    /\ artist_slice.some /\ title_slice.some
    /\ info_answer' \in {"infos", NOT_FOUND}
    /\ spc' = "done"
    /\ UNCHANGED <<msg_text, ita, bol, artist_slice, title_slice>>
    /\ UNCHANGED parseVars
    /\ UNCHANGED adapterVars
    /\ UNCHANGED netVars
    /\ UNCHANGED profileVars
    /\ UNCHANGED infosVars
    /\ UNCHANGED analVars
    /\ UNCHANGED botVars

NextSlice == SliceArtist \/ SliceTitle \/ SliceNotFound \/ SliceInfos

SpecSlice == InitSlice /\ [][NextSlice]_vars

(***************************************************************************)
(* Properties.                                                             *)
(***************************************************************************)
Parsed == cpc \in {"parsed", "rendered", "failed"}

P_clean_4_alltime ==
    W_clean \o <<" ", "4", " ">> \o <<"a", "l", "l", "t", "i", "m", "e">>

OutOfRangeSizes == {<<"0">>, <<"8">>, <<"1", "0", "x", "1", "0">>}

\* C4: whatever the phrase, the size parse_collage_arg returns lies in 1..7;
\* a phrase that is only a numeric token outside that range (0, 8, 10x10)
\* leaves the default 3 in effect.
C4_SizeInRange ==
    Parsed => /\ res.size \in MIN_SIZE..MAX_SIZE
              /\ arg \in OutOfRangeSizes => res.size = 3

C4_Witness == cpc = "parsed" /\ arg = <<"8">> /\ res.size = 3

\* C5: the documented results: "clean 4 alltime" -> (4, AllTime, Album, clean),
\* "artist" -> (3, AllTime, Artist, not clean), "3x3" -> size 3,
\* "" -> (3, AllTime, Album, not clean).
C5_DocumentedResults ==
    Parsed =>
        /\ arg = P_clean_4_alltime =>
              res = [size |-> 4, period |-> "AllTime", entry_type |-> "Album",
                     no_text |-> TRUE]
        /\ arg = W_artist =>
              res = [size |-> 3, period |-> "AllTime", entry_type |-> "Artist",
                     no_text |-> FALSE]
        /\ arg = <<"3", "x", "3">> => res.size = 3
        /\ arg = <<>> =>
              res = [size |-> 3, period |-> "AllTime", entry_type |-> "Album",
                     no_text |-> FALSE]

C5_Witness == cpc = "parsed" /\ arg = P_clean_4_alltime /\ res.size = 4 /\ res.no_text

\* the argument callback_handler hands on for a button rendered for (size, period, clean)
RenderedArg(size, period, clean) ==
    CallbackArg(CallbackData(size, period, IF clean THEN W_clean ELSE <<>>))

\* C6: re-parsing the lowercased callback argument rendered for the parsed
\* size, period and clean flag gives the same size, period and clean flag.
C6_RenderRoundTrip ==
    Parsed =>
        LET again == parse_collage_arg(RenderedArg(res.size, res.period, res.no_text))
        IN  /\ again.size = res.size
            /\ again.period = res.period
            /\ again.no_text = res.no_text

\* a button's argument parsed: the plus button of "clean 4 week"
C6_Witness ==
    /\ cpc = "parsed"
    /\ arg = <<"5", " ", "1", "_", "w", "e", "e", "k", " ">> \o W_clean
    /\ res.size = 5 /\ res.period = "OneWeek" /\ res.no_text

\* C7: the period table gives a non-empty literal for each of the three
\* providers and each of the six periods, and every top-list request carries it.
C7_PeriodTableTotal ==
    /\ \A a \in ApiType, d \in TimePeriod : time_period_to_api_string(d, a) # ""
    /\ (apc \in {"sent", "done"} /\ op \in {"albums", "artists"}) =>
           /\ request.period # ""
           /\ request.period = time_period_to_api_string(duration, api_type)

C7_Witness ==
    /\ apc = "sent" /\ op = "albums" /\ api_type = "Listenbrainz"
    /\ duration = "SixMonths" /\ request.period = "half_yearly"

\* the entries of the list a Lastfm-style body holds for the fetch at hand
LastfmItems ==
    IF op = "albums" THEN ArrayItems(Index(Index(json.v, "topalbums"), "album"))
    ELSE IF op = "artists" THEN ArrayItems(Index(Index(json.v, "topartists"), "artist"))
    ELSE <<>>

\* the field key of a JSON value, Absent when it holds none
Field(value, key) ==
    IF value.t = "obj" /\ key \in DOMAIN value.m THEN value.m[key] ELSE Absent

IsDigitString(f) ==
    f.t = "str" /\ f.s # <<>> /\ \A i \in 1..Len(f.s) : IsDigit(f.s[i])

\* absent, empty, or a string with a character no number has
IsNoNumber(f) ==
    \/ f = Absent
    \/ f.t = "str" /\ f.s = <<>>
    \/ f.t = "str" /\ \E i \in 1..Len(f.s) : ~IsDigit(f.s[i]) /\ f.s[i] # "+"

CountAsClaimed(f, count) ==
    /\ IsDigitString(f) => count = DigitsValue(f.s)
    /\ IsNoNumber(f) => count = 0

LastfmDone == apc = "done" /\ api_type \in {"Lastfm", "Librefm"} /\ json.ok

\* C8: in the Lastfm-style adapters a count given as a string of digits
\* normalises to that number; given as "", as a non-numeric string or not at
\* all it normalises to 0, and the fetch returns no error.
C8_CountNormalised ==
    LastfmDone =>
        /\ result.ok
        /\ op \in {"albums", "artists"} =>
              /\ Len(result.v) = Len(LastfmItems)
              /\ \A i \in 1..Len(LastfmItems) :
                    CountAsClaimed(Field(LastfmItems[i], "playcount"),
                                   result.v[i].user_playcount)
        /\ op = "user_info" =>
              LET u == Index(json.v, "user")
              IN  /\ CountAsClaimed(Field(u, "playcount"), result.v.playcount)
                  /\ CountAsClaimed(Field(u, "artist_count"), result.v.artist_count)
                  /\ CountAsClaimed(Field(u, "track_count"), result.v.track_count)
                  /\ CountAsClaimed(Field(u, "album_count"), result.v.album_count)

C8_Witness ==
    /\ LastfmDone /\ op = "albums" /\ Len(LastfmItems) = 1
    /\ Field(LastfmItems[1], "playcount") = JStr(<<"4", "2">>)
    /\ result.ok /\ result.v[1].user_playcount = 42

\* the URL the claim gives for an entity: that of the last element of its
\* image array, unless it is empty or holds the placeholder fingerprint
ImageAsClaimed(value) ==
    LET im == Field(value, "image")
        last == IF im.t = "arr" /\ im.a # <<>>
                THEN Field(im.a[Len(im.a)], "#text") ELSE Absent
    IN  IF last.t = "str" /\ last.s # <<>> /\ ~Contains(last.s, PLACEHOLDER)
        THEN Some(last.s)
        ELSE None

\* C9: the album art (profile picture) is the URL of the last element of the
\* image array: None when it holds the placeholder fingerprint, Some(url) for
\* any other non-empty URL, None when the array is missing or empty or the
\* URL is empty.
C9_BiggestImage ==
    (LastfmDone /\ result.ok) =>
        /\ op = "albums" =>
              \A i \in 1..Len(LastfmItems) :
                  result.v[i].album_art_url = ImageAsClaimed(LastfmItems[i])
        /\ op = "user_info" =>
              result.v.profile_pic_url = ImageAsClaimed(Index(json.v, "user"))

C9_Witness ==
    /\ LastfmDone /\ op = "albums" /\ Len(LastfmItems) = 1
    /\ Field(LastfmItems[1], "image") = JArr(<<TextObj(RealUrl), TextObj(PlaceholderUrl)>>)
    /\ result.ok /\ result.v[1].album_art_url = None

\* the request of the call that was made last
LastSent == sent[Len(sent)]

\* the playing-now probe of a Listenbrainz call gave entries, and the caller
\* passed actual_limit = 1
ProbeGaveEntries ==
    /\ call = "recent" /\ provider = "Listenbrainz" /\ actual_limit = 1
    /\ all_tracks # <<>> /\ all_tracks[1].now_playing

\* C1: fetch_recent_tracks for Listenbrainz, when the playing-now probe gives
\* at least one entry and actual_limit is 1, returns the probe's entries and
\* never issues the listens request: exactly one request reaches CLIENT.
C1_ProbeOnly ==
    ProbeGaveEntries =>
        /\ npc = "done"
        /\ ret = Ok(all_tracks)
        /\ \A i \in 1..Len(all_tracks) : all_tracks[i].now_playing
        /\ Len(sent) = 1
        /\ sent[1].url = URL_PLAYING_NOW

C1_Witness ==
    /\ ProbeGaveEntries /\ npc = "done" /\ sent[1].outbound /\ status = 200
    /\ ret.ok /\ Len(ret.v) = 1

\* C2: two fetch_recent_tracks calls with prefer_cached = true within the 300 s
\* time to live cause at most one outbound request per URL: no prefer_cached
\* call has a request on the wire for a URL the provider answered with 200 to
\* a prefer_cached call less than the time to live ago.
C2_OneRequestPerUrl ==
    (call = "recent" /\ prefer_cached /\ npc = "await") =>
        answered[LastSent.url] = -1

\* C3: a fetch_recent_tracks call with prefer_cached = false sends every request
\* to the provider whatever the cache holds: the request carries no-cache and
\* must-revalidate and no max-stale, and nothing is answered from the cache
\* without the provider being contacted.
C3_NoCacheGoesOut ==
    (call = "recent" /\ ~prefer_cached) =>
        \A i \in 1..Len(sent) :
            /\ sent[i].outbound
            /\ sent[i].headers = <<CC_NO_CACHE>>
            /\ Directives(sent[i].cache_control) = {"no-cache", "must-revalidate"}

C3_Witness ==
    /\ call = "recent" /\ ~prefer_cached /\ npc = "await"
    /\ cache[LastSent.url].some
    /\ Satisfies(cache[LastSent.url].v, Directives(<<CC_PREFER_CACHED>>))

\* C10: a detail lookup (fetch_lastfm_track, fetch_lastfm_album,
\* fetch_lastfm_artist) whose request the provider answers with 404 fails
\* with 'Track not found.' / 'Album not found.' / 'Artist not found.'.
C10_NotFoundOn404 ==
    (call \in {"track", "album", "artist"} /\ npc = "done" /\ status = 404) =>
        ret = Err(NotFound(call))

\* the failure the documentation gives for a status
StatusFailure(code) ==
    CASE code = 404 -> Err(USER_NOT_FOUND)
      [] code = 403 -> Err(PRIVATE_PROFILE)
      [] code = 500 -> Err("Internal Server Error")
      [] OTHER -> Err(ERR_MSG)

Is2xx(code) == code >= 200 /\ code <= 299

\* C11: no caller of CLIENT or CLIENT_NOCACHE receives a response with a
\* status outside 2xx, from the network or from the cache: a response outside
\* 2xx that reaches Response200Middleware becomes the failure 'No such user'
\* for 404, the private-profile text for 403, else the reason phrase or the
\* generic message.  (CLIENT's cache layer may answer a revalidation that the
\* provider refused with the stored 200; CLIENT_NOCACHE has no such layer.)
C11_NoNon2xx ==
    npc = "got" =>
        /\ response.ok => Is2xx(response.v.status)
        /\ (status # 0 /\ ~Is2xx(status)) =>
              \/ response = StatusFailure(status)
              \/ /\ ClientOf(call) = "CLIENT" /\ cache[LastSent.url].some
                 /\ response.ok /\ response.v.body = cache[LastSent.url].v.body

C11_Witness ==
    /\ npc = "got" /\ call = "art" /\ status = 599 /\ response = Err(ERR_MSG)

C15_AllOrNothing ==
    upc = "done" =>
        /\ user.ok <=> (Len(answers) = 4 /\ \A k \in 1..4 : answers[k].ok)
        /\ \A k \in 1..Len(answers) : ~answers[k].ok => user = Err(answers[k].err)

C15_Witness ==
    /\ upc = "done" /\ Len(answers) = 3 /\ ~answers[3].ok
    /\ user = Err(TRANSPORT_ERROR)

\* the value where the documentation puts the top-level array of a body
TopArray(o, a, body) ==
    IF o = "albums"
    THEN IF a = "Listenbrainz" THEN Field(Field(body, "payload"), "releases")
         ELSE Field(Field(body, "topalbums"), "album")
    ELSE IF a = "Listenbrainz" THEN Field(Field(body, "payload"), "artists")
         ELSE Field(Field(body, "topartists"), "artist")

\* C13: when a 2xx response lacks the expected top-level array
\* (topalbums.album, topartists.artist, payload.releases, payload.artists),
\* fetch_albums and fetch_artists fail with a malformed-response error: they
\* do not return Ok.
C13_MissingArrayFails ==
    (apc = "done" /\ op \in {"albums", "artists"} /\ json.ok
        /\ TopArray(op, api_type, json.v).t # "arr") =>
        ~result.ok

\* a Listenbrainz recent-tracks call
ListenbrainzRecent == call = "recent" /\ provider = "Listenbrainz"

\* the entries from..to of a list are the provider's first ones, in its
\* order, with now_playing = playing
InProviderOrder(list, from, to, playing) ==
    \A i \in from..to :
        list[i] = [name |-> U32ToString(i - from + 1), now_playing |-> playing]

P_collage_5_1m == W_collage \o <<" ", "5", " ", "1", "m">>

\* C17: a token that is no size, period keyword, entry-type word or flag word
\* claims no field: parse("collage 5 1m") gives size 5 and period OneMonth.
C17_UnknownTokenIgnored ==
    (Parsed /\ arg = P_collage_5_1m) => (res.size = 5 /\ res.period = "OneMonth")

\* C18: a digit-led token is a period only as 7 with 'd' or 1 with 'w'
\* (OneWeek), 1 with 'm', 3 with 'm', 6 with 'm', 1 with 'y'; any other
\* digit-led token, such as "3y", leaves the period unclaimed (AllTime, the
\* default, for a phrase of that token alone).
C18_OtherDigitTokenUnclaimed ==
    (Parsed /\ arg = <<"3", "y">>) => res.period = "AllTime"

\* the locals of parse_collage_arg before the loop and after each of the
\* (at most four) splits of a phrase
Locals(a) ==
    LET splits == SplitN(a, 4, " ")
        s0 == ParseStart(splits)
        s1 == IF Len(splits) >= 1 THEN ParseToken(splits[1], s0) ELSE s0
        s2 == IF Len(splits) >= 2 THEN ParseToken(splits[2], s1) ELSE s1
        s3 == IF Len(splits) >= 3 THEN ParseToken(splits[3], s2) ELSE s2
        s4 == IF Len(splits) >= 4 THEN ParseToken(splits[4], s3) ELSE s3
    IN  [splits |-> splits, after |-> <<s0, s1, s2, s3, s4>>]

\* C19: parse_collage_arg is first-match-wins per field: once a token has
\* claimed the size (the period, the entry type), no later token of the phrase
\* changes it, and a later entry-type word is taken neither for a size nor for
\* a period.
C19_FirstMatchWins ==
    Parsed =>
        LET l == Locals(arg)
        IN  \A k \in 1..Len(l.splits) :
                LET before == l.after[k]
                    now == l.after[k + 1]
                IN  /\ now.size_found => res.size = now.size
                    /\ now.period_found => res.period = now.period
                    /\ now.entry_type_found => res.entry_type = now.entry_type
                    /\ (before.entry_type_found /\ EntryTypeOf(l.splits[k]) # "None") =>
                           now = before

C19_Witness ==
    /\ cpc = "parsed"
    /\ arg = <<"4", " ">> \o W_track \o <<" ">> \o W_artist
    /\ res.size = 4 /\ res.entry_type = "Track" /\ res.period = "AllTime"

\* C16: fetch_lastfm_infos spawns the artist lookup and the track lookup as two
\* tasks before it awaits either (nothing is joined while a task is unborn),
\* and it builds its text only when both tasks are finished and joined: the
\* text is the track text and the artist text of the two outcomes.
C16_SpawnBothThenJoinBoth ==
    /\ (artist_part.some \/ info_text # Pending) =>
           \A t \in Tasks : tasks[t] # "unborn"
    /\ info_text.ok =>
           /\ \A t \in Tasks : tasks[t] = "finished"
           /\ artist_part = Some(ArtistText(outcomes["artist"]))
           /\ info_text.v = InfoText(TrackText(outcomes["track"]),
                                     ArtistText(outcomes["artist"]))

\* both requests on their way at once, nothing awaited yet
C16_Witness ==
    /\ ipc = "spawned_both"
    /\ \A t \in Tasks : tasks[t] = "in_flight"
    /\ ~artist_part.some

\* C20: a detail lookup whose 2xx body holds the object returns Ok whatever
\* fields the object lacks: it never panics.
C20_MissingFieldNeverPanics ==
    \A t \in Tasks : tasks[t] = "finished" => ~IsPanic(outcomes[t])

\* the tokens the collage help names: sizes, periods, entry-type words
SizeTokens ==
    {<<Digits[n + 1]>> : n \in 1..7} \cup {<<Digits[n + 1], "x", Digits[n + 1]>> : n \in 1..7}

PeriodTokens ==
    {<<"7", "d">>, <<"1", "w">>, <<"1", "m">>, <<"3", "m">>, <<"6", "m">>, <<"1", "y">>,
     <<"w", "e", "e", "k">>, <<"m", "o", "n", "t", "h">>, <<"y", "e", "a", "r">>,
     <<"a", "l", "l", "t", "i", "m", "e">>, <<"o", "v", "e", "r", "a", "l", "l">>}

EntryWords == {W_artist, W_album, W_track}

\* how many of the tokens ts lie in the set S
CountIn(ts, S) == Cardinality({i \in 1..Len(ts) : ts[i] \in S})

\* at most three tokens, each a size, a period or an entry-type word, at most
\* one of each kind
OneOfEach(ts) ==
    /\ Len(ts) <= 3
    /\ \A i \in 1..Len(ts) : ts[i] \in SizeTokens \cup PeriodTokens \cup EntryWords
    /\ CountIn(ts, SizeTokens) <= 1
    /\ CountIn(ts, PeriodTokens) <= 1
    /\ CountIn(ts, EntryWords) <= 1

Orders(n) == {f \in [1..n -> 1..n] : \A i, j \in 1..n : i # j => f[i] # f[j]}

\* C21: for a phrase of at most three tokens holding at most one size token,
\* one period token and one entry-type word (and nothing else), the result of
\* parse_collage_arg is the same for every order of the tokens.
C21_OrderIndependent ==
    Parsed =>
        LET ts == Split(arg, " ")
        IN  OneOfEach(ts) =>
                \A f \in Orders(Len(ts)) :
                    parse_collage_arg(Join([i \in 1..Len(ts) |-> ts[f[i]]])) = res

\* "artist 1m 4" parsed: the three kinds in the order opposite to the help's
C21_Witness ==
    /\ cpc = "parsed"
    /\ arg = W_artist \o <<" ", "1", "m", " ", "4">>
    /\ res = [size |-> 4, period |-> "OneMonth", entry_type |-> "Artist", no_text |-> FALSE]

FlagWords == {W_notext, W_nonames, W_clean}

\* the tokens ts without the i-th
Without(ts, i) == SubSeq(ts, 1, i - 1) \o SubSeq(ts, i + 1, Len(ts))

\* C24: a flag word (notext, nonames, clean) sets only the clean flag: for a
\* phrase of at most four tokens the size, the period and the entry type are
\* those of the phrase with the flag word taken out, wherever it stands.
C24_FlagWordOnlySetsFlag ==
    Parsed =>
        LET ts == Split(arg, " ")
        IN  Len(ts) <= 4 =>
                \A i \in 1..Len(ts) :
                    ts[i] \in FlagWords =>
                        LET without == parse_collage_arg(Join(Without(ts, i)))
                        IN  /\ res.size = without.size
                            /\ res.period = without.period
                            /\ res.entry_type = without.entry_type

\* C22: in the ScrobbleUser of the Listenbrainz branch of fetch_user_info,
\* album_count is the total release count (the third answer) and track_count
\* the total recording count (the fourth).
C22_CountsInTheirFields ==
    (upc = "done" /\ user.ok) =>
        /\ user.v.album_count = ProfileCount(answers, 3)
        /\ user.v.track_count = ProfileCount(answers, 4)

\* C23: both rewrites of ForceCacheMiddleware take effect in front of the
\* cache layer: a request without no-cache reaches the cache layer with
\* max-stale=300 added and a request with no-cache reaches it as it was sent;
\* and what the cache layer stores for a request without no-cache (every
\* request of a detail lookup is one) carries max-age=300, public, immutable.
C23_RewritesInFrontOfCache ==
    ClientOf(call) = "CLIENT" =>
        /\ \A i \in 1..Len(sent) :
               IF no_cache(sent[i].headers)
               THEN sent[i].cache_control = sent[i].headers
               ELSE "max-stale=300" \in Directives(sent[i].cache_control)
        /\ call \in {"track", "album", "artist"} =>
               \A u \in DOMAIN cache :
                   cache[u].some => cache[u].v.cc = Directives(<<CC_FORCED>>)

\* C25: under any interleaving of add_event calls, no event leaves
\* EVENTS_BUFFER unless a batch holding it was uploaded successfully: every
\* event ever pushed is in the buffer or among the uploaded ones.
C25_NoEventLost ==
    \A e \in 1..pushed : e \in Range(events_buffer) \/ e \in uploaded

\* C26: a failed upload (transport error, or a status that is no 2xx) makes
\* add_event return the error with EVENTS_BUFFER as it was; the body of an
\* upload attempt is the whole buffer; and the buffer loses events only in
\* the clear that follows an upload answered with a 2xx status.
C26_ClearedOnlyAfter2xx ==
    [][/\ \A h \in Handlers :
              (epc[h] = "uploading" /\ epc'[h] # "uploading" /\ ~Is2xx(upload_status'[h])) =>
                  /\ events_buffer' = events_buffer
                  /\ epc'[h] = "done"
                  /\ ~add_result'[h].ok
       /\ \A h \in Handlers :
              (epc[h] = "send" /\ epc'[h] = "uploading") => upload_body'[h] = events_buffer
       /\ Len(events_buffer') < Len(events_buffer) =>
              \E h \in Handlers :
                  epc[h] = "uploaded" /\ Is2xx(upload_status[h]) /\ epc'[h] = "done"
      ]_vars

\* one handler's upload has failed, and the other's attempt after it holds
\* every event pushed so far
C26_Witness ==
    \E g, h \in Handlers :
        /\ epc[g] = "done" /\ ~add_result[g].ok /\ ~Is2xx(upload_status[g])
        /\ epc[h] = "uploading" /\ upload_body[h] = events_buffer
        /\ Range(events_buffer) = 1..pushed
        /\ pushed = MAX_EVENTS_TO_TRIGGER_SEND + 2
        /\ uploaded = {}

\* the update is a click on a button that names another user
OthersButton(u) ==
    u.kind = "callback" /\ AllowedUserId(u) \notin {ParseErr, 0, u.sender}

\* C27: a click on a button whose data starts with a non-zero id that is not
\* the clicker's never gets past the check: no command runs, the user store
\* is neither read nor changed, no message is edited or sent, and the one
\* thing done is the answer to the callback query that turns the click down
\* (for a message too old to carry content, the answer saying so).  With id 0
\* or the clicker's own id the click is not turned down.
C27_OnlyOwnerClicks ==
    /\ [](OthersButton(update) =>
            /\ bpc \in {"received", "done"}
            /\ set_probe = NoProbe
            /\ effects = IF bpc = "received" THEN <<>>
                         ELSE IF update.message = "none"
                         THEN <<Answer("MESSAGE_TOO_OLD")>>
                         ELSE <<Answer("NO")>>)
    /\ []((update.kind = "callback" /\ ~OthersButton(update) /\ bpc = "done") =>
            effects # <<Answer("NO")>>)
    /\ [][OthersButton(update) => user_store' = user_store]_vars

\* user 2's click on user 1's "set" button, turned down; user 2 has no account
C27_Witness ==
    /\ bpc = "done"
    /\ update.kind = "callback" /\ update.sender = 2 /\ update.message = "regular"
    /\ update.data = <<"1", " ", "set", " ", "user", " ", "listenbrainz">>
    /\ effects = <<Answer("NO")>>
    /\ ~user_store[2].some

\* C28: set_command writes the mapping of the chat user to (username,
\* provider) only after its fetch_recent_tracks probe for that username and
\* provider, made with prefer_cached = false, has succeeded; a failed probe
\* leaves the user store as it was.
C28_StoreAfterFreshProbe ==
    /\ [](bpc = "probed" =>
            /\ ~set_probe.prefer_cached
            /\ set_probe.username = SetUsername(update)
            /\ set_probe.api_type = SetApiType(update))
    /\ [][user_store' # user_store =>
            /\ bpc = "probed"
            /\ set_probe.recent_tracks.ok
            /\ user_store' = [user_store EXCEPT ![update.sender] =
                                 Some([account_username |-> SetUsername(update),
                                       api_type |-> SetApiType(update)])]]_vars
    /\ [][(bpc = "probed" /\ ~set_probe.recent_tracks.ok) =>
            user_store' = user_store]_vars

\* "/set user listenbrainz" of user 1, linked to another account before, done
C28_Witness ==
    /\ bpc = "done"
    /\ update.kind = "message" /\ update.sender = 1
    /\ update.data = <<"user", " ", "listenbrainz">>
    /\ set_probe.recent_tracks.ok /\ ~set_probe.prefer_cached
    /\ effects = <<Effect("command", "fetch_recent_tracks"), Effect("db_write", ""),
                   Effect("message", "SET_OK"), Effect("track", "set")>>
    /\ user_store[1] = Some([account_username |-> <<"user">>, api_type |-> "Listenbrainz"])

\* the size a button's callback data carries: its third word
ButtonSize(data) == ParseUInt(Split(data, " ")[3])

\* the sizes the buttons on show carry
ButtonSizes == {ButtonSize(buttons[i]) : i \in 1..Len(buttons)}

\* C29: whatever phrase or button press led to the buttons on show, the size
\* each carries lies in 1..7 and is the size its argument parses back to; the
\* plus button is there only below size 7, the minus button only above size 1.
C29_ButtonSizesStayInRange ==
    cpc = "rendered" =>
        /\ \A i \in 1..Len(buttons) :
              /\ ButtonSize(buttons[i]) \in MIN_SIZE..MAX_SIZE
              /\ parse_collage_arg(CallbackArg(buttons[i])).size = ButtonSize(buttons[i])
        /\ (res.size + 1 \in ButtonSizes) <=> (res.size < MAX_SIZE)
        /\ (res.size - 1 \in ButtonSizes) <=> (res.size > MIN_SIZE)

\* the buttons of size 7, reached by pressing plus: no plus button left
C29_Witness ==
    /\ cpc = "rendered" /\ arg # <<>> /\ arg[1] = "7" /\ res.size = MAX_SIZE
    /\ ButtonSizes = {6, 7}

\* the characters of s that lie between the UTF-16 offsets start and end
RECURSIVE Between(_, _, _)
Between(s, start, end) ==
    IF s = <<>> \/ end <= 0 THEN <<>>
    ELSE IF start <= 0
    THEN <<Head(s)>> \o Between(Tail(s), 0, end - len_utf16(Head(s)))
    ELSE Between(Tail(s), start - len_utf16(Head(s)), end - len_utf16(Head(s)))

\* the UTF-16 offsets at which a character of s starts, and the one past its end
Boundaries(s) == {Utf16Len(SubSeq(s, 1, k)) : k \in 0..Len(s)}

\* what the claim has slice_tg_string give for the entity e of msg_text
SliceAsClaimed(e) ==
    IF e.offset \in Boundaries(msg_text) /\ e.offset + e.length \in Boundaries(msg_text)
    THEN Some(Between(msg_text, e.offset, e.offset + e.length))
    ELSE None

\* C30: slice_tg_string gives Some(the characters between the two UTF-16
\* offsets) whenever 0 <= start <= end <= the UTF-16 length of the text and
\* both lie on character boundaries, the end of the text included; it gives
\* None for any other offsets.
C30_SliceOnBoundaries ==
    /\ spc \in {"artist", "title", "done"} => artist_slice = SliceAsClaimed(ita)
    /\ spc \in {"title", "done"} => title_slice = SliceAsClaimed(bol)

====
